---- MODULE Spec2Model ----
(***************************************************************************)
(* Model of the sandboxed code-execution subsystem:                        *)
(*   runCode         src/src/runtime/virtualizer.js                        *)
(*   runJavaScript   src/src/ParserTreeGraph.jsx (sandboxRunner part)      *)
(*   PythonExecutor  src/src/python/executor.js (host part)                *)
(*   pyWorker        src/src/python/executor.js (worker part)              *)
(*                                                                         *)
(* The host is one event loop: every action below is one task of it (the   *)
(* synchronous runCode call, one message event, one timer callback, one    *)
(* stop() call) together with the microtasks it leaves behind.  The iframe *)
(* and the worker run on their own event loops and talk to the host only   *)
(* through FIFO message queues.                                            *)
(***************************************************************************)
EXTENDS Integers, Sequences, FiniteSets, TLC

(* ------------------------------ bounds --------------------------------- *)

\* options.maxLogBytes of the modelled run (default 64 * 1024 in the source)
MaxLogBytes == 20

\* how many console calls / stream writes the submitted code performs at most
MaxLogs == 3

\* how many times run() is called on one PythonExecutor at most
MaxRuns == 2

\* how many stream writes and raw posts the code submitted to one
\* PythonExecutor performs at most
MaxWrites == 1

\* how many foreign messages the window receives at most
MaxNoise == 1

\* the longest code POST /api/snippets accepts (200000 in the source)
MaxCodeLength == 3

\* the largest body express.json parses ('1mb' in the source)
MaxBodyBytes == 5

\* how many snippets are stored at most
MaxPosts == 2

\* how many times Run is pressed in the Python Lab
MaxLabRuns == 2

\* how many writes to sys.stdout / sys.stderr the code run in the Lab makes
MaxLabWrites == 1

\* how many stage intervals of App are alive at once
MaxIntervals == 2

\* how many completion timeouts of CompilerAnimation are pending at once
MaxCompletions == 1

(* ----------------------------- constants ------------------------------- *)

\* text of the truncation warning
Truncated == "[output truncated]"

\* language tags runCode is called with; the last two are not supported
\* (the comparison is case-sensitive)
Languages == {"javascript", "js", "typescript", "ts", "python", "py", "ruby", "JavaScript"}

\* session tokens: the one generated by runJavaScript, the one generated by
\* the PythonExecutor constructor
JsToken == "tokJ"
PyToken == "tokP"

\* run identifiers: the one runCode generates for a call with language l,
\* and the one PythonExecutor.run generates for its 'run' message
RunId(l) == l \o "_r1"
PyRunId == "py_r2"

\* the console calls the submitted JavaScript chooses from: level and
\* arguments (already mapped to strings by the harness)
ConsoleCalls ==
  { [level |-> "log",   args |-> <<"hi">>],
    [level |-> "error", args |-> <<"hello", "world!">>],
    [level |-> "info",  args |-> <<"aaaaaaaaaaaaaaaaaaaa">>] }

\* the message of the exception the submitted JavaScript throws
Thrown == {"boom"}

\* window messages that do not come from this run's harness: one without
\* the __runner marker, one of another session, one with a null token (a
\* console call of a harness that has not received 'execute')
ForeignMessages ==
  { [runner |-> FALSE, token |-> "",     type |-> "error", level |-> "",
     args |-> <<>>, message |-> "x"],
    [runner |-> TRUE,  token |-> "tokX", type |-> "done",  level |-> "",
     args |-> <<>>, message |-> ""],
    [runner |-> TRUE,  token |-> "",     type |-> "log",   level |-> "log",
     args |-> <<"hi">>, message |-> ""] }

\* raw messages the submitted Python posts itself, with js.postMessage; it
\* does not know the session token
ForgedMessages ==
  { [type |-> "result", token |-> "",     text |-> "forged"],
    [type |-> "error",  token |-> "tokY", text |-> "forged"] }

\* the stream writes the submitted Python chooses from
Writes ==
  { [kind |-> "stdout", text |-> "hi"],
    [kind |-> "stderr", text |-> "hi"],
    [kind |-> "stdout", text |-> "hello world!"],
    [kind |-> "stderr", text |-> "aaaaaaaaaaaaaaaaaaaa"] }

(* ------------------------------- state --------------------------------- *)

VARIABLES
  \* runCode
  called,             \* runCode has been invoked
  language,           \* options.language
  events,             \* the events handed to onEvent, in order
  totalLogBytes,      \* runCode: shared log budget
  truncatedNotified,  \* runCode
  tags,               \* history: the runId and language the delivered events carry
  throwsOn,           \* the event types for which the consumer's onEvent throws
  escaped,            \* history: an exception of onEvent has left runCode, a
                      \* message handler, a promise callback or a timer
  finished,           \* runCode, python branch
  timer,              \* runCode, python branch: "none" | "armed" | "cleared" | "fired"
  \* runJavaScript
  js_events,          \* the events runJavaScript hands to its onEvent
  js_finished,
  js_totalLogBytes,
  js_truncatedNotified,
  js_timer,           \* "none" | "armed" | "cleared" | "fired"
  js_listening,       \* handleMsg is a 'message' listener of window
  iframe,             \* "none" | "attached" | "removed"
  \* iframe harness
  sb_pc,              \* "none" | "loading" | "posted" | "running" | "returned" | "threw"
  execToken,          \* "" stands for null
  sb_logs,            \* console calls made so far
  winQ,               \* messages posted to the parent window, not yet dispatched
  noise,              \* foreign messages the window has received so far
  \* PythonExecutor
  worker,             \* "null" | "w"
  listeners,          \* subset of {"runner", "oneshot"}
  ready,
  \* pyWorker
  wk_pc,              \* "none" | "created" | "loading" | "failed" | "idle" |
                      \* "running" | "ended" | "terminated"
  initialized,        \* pyodide has been loaded
  currentToken,       \* "" stands for null
  wk_inbox,           \* messages posted to the worker, not yet dispatched
  wk_writes,          \* stream writes made so far
  pyQ,                \* messages posted by the worker, not yet dispatched
  \* history
  stopCalled,         \* stop() has been called
  initCtx,            \* the iframe and the worker at the moment the first init
                      \* was handed to the callback
  stopLen,            \* Len(events) at the first stop() if no terminal event had
                      \* been delivered by then, -1 otherwise
  \* a PythonExecutor used directly, through run / onMessage / dispose
  runs,               \* run() calls made so far; the k-th call generates runId k
  gen,                \* workers constructed so far; the held worker is the gen-th
  wk_task,            \* pyWorker: where the handler of each 'run' message stands,
                      \* "none" | "redirecting" | "evaluating" | "finished" | "dropped"
  post_std,           \* pyWorker: the runId the global post_std bridge is closed
                      \* over, 0 before the first run
  seen,               \* history: token and origin of the messages handed to
                      \* listeners, each with the worker held at that moment
  wk_posted,          \* history: type, runId and poster of the messages posted by
                      \* workers
  readyBy,            \* history: the worker whose message last set ready, 0 if none
  \* the snippet server
  all,                \* the content of data/snippets.json: id -> snippet
  issued,             \* history: id -> the code, language and meta stored by the
                      \* POST that returned the id
  nIds,               \* history: how many ids nanoid has generated
  clock,              \* Date.now() at the last accepted POST
  res,                \* the last request and the response it got
  \* PythonLab
  running,            \* useState(false)
  status,             \* useState('Idle')
  lines,              \* the output lines, each with the run whose message it shows
                      \* (0: a line of the panel itself)
  execRef,            \* the executor execRef.current holds: the execRef-th made
  timeoutRef,         \* the run whose timer timeoutRef.current holds, 0 if none
  countdown,          \* useState(0)
  executors,          \* the PythonExecutor objects: worker, ready, listeners
  workers,            \* the pyWorker of each executor: pc, inbox, the run evaluated
  outbox,             \* the messages each worker has posted, not yet dispatched
  timers,             \* the hard-timeout timer of each run:
                      \* "none" | "armed" | "cleared" | "fired"
  closure,            \* the value of running in the closure of each run() call
  lab_runs,           \* run() calls so far; the k-th is run k
  lab_writes,         \* stream writes made so far
  stoppedRuns,        \* history: the runs during which Stop was pressed, each with
                      \* the executor it was submitted to
  finalSeen,          \* history: the runs whose result or error the host dispatched
  \* App and CompilerAnimation
  isCompiling,        \* App: useState(false)
  compilationComplete,\* App: useState(false)
  currentStage,       \* App: useState(0)
  intervals,          \* the stage intervals of handleCompile that are alive
  animationPhase,     \* CompilerAnimation: 'idle' | 'starting' | 'running' | 'completing'
  animStage,          \* CompilerAnimation: its own currentStage
  completions,        \* the completion timeouts of CompilerAnimation that are pending
  resetIdle           \* history: Reset was pressed during a compilation and Compile
                      \* has not been pressed since

runnerVars == <<called, language, throwsOn, events, totalLogBytes, truncatedNotified,
               tags, escaped, finished, timer>>
jsVars     == <<js_events, js_finished, js_totalLogBytes, js_truncatedNotified,
                js_timer, js_listening, iframe>>
sbVars     == <<sb_pc, execToken, sb_logs, winQ, noise>>
pyVars     == <<worker, listeners, ready>>
wkVars     == <<wk_pc, initialized, currentToken, wk_inbox, wk_writes, pyQ>>
histVars   == <<stopCalled, stopLen, initCtx>>
execVars   == <<runs, gen, wk_task, post_std, seen, wk_posted, readyBy>>
srvVars    == <<all, issued, nIds, clock, res>>
labVars    == <<running, status, lines, execRef, timeoutRef, countdown, executors,
                workers, outbox, timers, closure, lab_runs, lab_writes, stoppedRuns,
                finalSeen>>
appVars    == <<isCompiling, compilationComplete, currentStage, intervals,
                animationPhase, animStage, completions, resetIdle>>
vars       == <<runnerVars, jsVars, sbVars, pyVars, wkVars, histVars, execVars, srvVars,
                labVars, appVars>>

(* ------------------------------ helpers -------------------------------- *)

\* new TextEncoder().encode(s).length, for the ASCII texts of the model
Bytes(s) == Len(s)

\* Array.prototype.join(' ')
RECURSIVE Join(_)
Join(args) ==
  IF Len(args) = 0 THEN ""
  ELSE IF Len(args) = 1 THEN args[1]
  ELSE args[1] \o " " \o Join(Tail(args))

\* x || d  on strings
OrElse(x, d) == IF x = "" THEN d ELSE x

\* an event object { type, ...payload }; text is the payload's text (stdout,
\* stderr, log) or its message (error)
Ev(type, text, level) == [type |-> type, text |-> text, level |-> level]

IsJs(l) == l = "javascript" \/ l = "js" \/ l = "typescript" \/ l = "ts"
IsPy(l) == l = "python" \/ l = "py"

Terminal == {"done", "error", "timeout"}

(* ------------------- runCode: emit and budgetedEmit -------------------- *)

\* the part of runCode's closure that emit and budgetedEmit touch, and
\* raised: an exception is propagating, the statements that follow are not
\* executed until a catch is reached
RunnerOf(l) == [events |-> events, totalLogBytes |-> totalLogBytes,
                truncatedNotified |-> truncatedNotified, tags |-> tags,
                runId |-> RunId(l), language |-> l,
                throwsOn |-> throwsOn, raised |-> FALSE]

Runner == RunnerOf(language)

\* the end of a function of the runner that the host called: the closure as
\* the function left it; an exception still propagating leaves the function
SetRunner(r) ==
  /\ events' = r.events
  /\ totalLogBytes' = r.totalLogBytes
  /\ truncatedNotified' = r.truncatedNotified
  /\ tags' = r.tags
  /\ escaped' = (escaped \/ r.raised)

\* try { ... } catch (_) {} around the statements that produced r
Caught(r) == [r EXCEPT !.raised = FALSE]

\* emit(type, payload): onEvent({ type, runId, language, ...payload }); a
\* runId in the payload ("" if it has none) comes after the closure's in the
\* object literal and replaces it
Delivered(r, type, text, level, payloadRunId) ==
  [r EXCEPT !.events = Append(@, Ev(type, text, level)),
            !.tags = @ \cup {[runId |-> OrElse(payloadRunId, r.runId),
                              language |-> r.language]}]

\* an emit that calls onEvent outside any try block
emitWith_noCatch(r, type, text, level, payloadRunId) ==
  IF r.raised THEN r
  ELSE [Delivered(r, type, text, level, payloadRunId)
          EXCEPT !.raised = type \in r.throwsOn]

\* the call of onEvent is the body of a try whose catch is empty: whether
\* the callback returns or throws, emit returns
emitWith(r, type, text, level, payloadRunId) ==
  IF r.raised THEN r
  ELSE Caught([Delivered(r, type, text, level, payloadRunId)
                 EXCEPT !.raised = type \in r.throwsOn])

\* emit with a payload that has no runId
emit(r, type, text, level) == emitWith(r, type, text, level, "")

\* budgetedEmit with the check made per message instead of cumulatively
budgetedEmit_perMessage(r, type, text, level) ==
  LET s == text
      bytes == Bytes(s)
  IN IF bytes <= MaxLogBytes
       THEN emit([r EXCEPT !.totalLogBytes = @ + bytes], type, s, level)
     ELSE IF ~r.truncatedNotified
       THEN emit([r EXCEPT !.truncatedNotified = TRUE], "log", Truncated, "warn")
     ELSE r

budgetedEmit(r, type, text, level) ==
  LET s == text
      bytes == Bytes(s)
  IN IF r.raised THEN r
     ELSE IF r.totalLogBytes + bytes <= MaxLogBytes
       THEN emit([r EXCEPT !.totalLogBytes = @ + bytes], type, s, level)
     ELSE IF ~r.truncatedNotified
       THEN emit([r EXCEPT !.truncatedNotified = TRUE], "log", Truncated, "warn")
     ELSE r

\* an adapter that forwards an error without its payload
jsAdapter_bareError(r, evt) ==
  LET r1 == IF evt.type = "init" THEN emit(r, "init", "", "") ELSE r
      r2 == IF evt.type = "start" THEN emit(r1, "start", "", "") ELSE r1
      r3 == IF evt.type = "log"
              THEN emit(budgetedEmit(r2, "stdout", evt.text, OrElse(evt.level, "log")),
                        "log", evt.text, OrElse(evt.level, "log"))
              ELSE r2
      r4 == IF evt.type \in Terminal THEN emit(r3, evt.type, "", "") ELSE r3
  IN r4

\* an adapter that sends the terminal events through the budget as well:
\* once the warning has fired they are dropped like the output
jsAdapter_budgetedTerminal(r, evt) ==
  LET r1 == IF evt.type = "init" THEN emit(r, "init", "", "") ELSE r
      r2 == IF evt.type = "start" THEN emit(r1, "start", "", "") ELSE r1
      r3 == IF evt.type = "log"
              THEN emit(budgetedEmit(r2, "stdout", evt.text, OrElse(evt.level, "log")),
                        "log", evt.text, OrElse(evt.level, "log"))
              ELSE r2
      r4 == IF evt.type \in Terminal /\ ~r3.truncatedNotified
              THEN emit(r3, evt.type, evt.text, "") ELSE r3
  IN r4

\* the callback runCode passes to runJavaScript
jsAdapter(r, evt) ==
  LET r1 == IF evt.type = "init" THEN emit(r, "init", "", "") ELSE r
      r2 == IF evt.type = "start" THEN emit(r1, "start", "", "") ELSE r1
      r3 == IF evt.type = "log"
              THEN emit(budgetedEmit(r2, "stdout", evt.text, OrElse(evt.level, "log")),
                        "log", evt.text, OrElse(evt.level, "log"))
              ELSE r2
      r4 == IF evt.type = "error" THEN emit(r3, "error", evt.text, "") ELSE r3
      r5 == IF evt.type = "done" THEN emit(r4, "done", "", "") ELSE r4
      r6 == IF evt.type = "timeout" THEN emit(r5, "timeout", "", "") ELSE r5
  IN r6

\* a listener that passes the worker's runId on with start
pyAdapter_echoRunId(r, msg) ==
  IF msg.type = "ready" THEN r
  ELSE
  LET r1 == IF msg.type = "start" THEN emitWith(r, "start", "", "", msg.runId) ELSE r
      r2 == IF msg.type = "stdout" THEN budgetedEmit(r1, "stdout", msg.text, "info") ELSE r1
      r3 == IF msg.type = "stderr" THEN budgetedEmit(r2, "stderr", msg.text, "warn") ELSE r2
      r4 == IF msg.type = "result" THEN emit(r3, "result", "", "") ELSE r3
      r5 == IF msg.type = "error" THEN emit(r4, "error", msg.text, "") ELSE r4
  IN r5

\* the listener runCode registers with py.onMessage
pyAdapter(r, msg) ==
  IF msg.type = "ready" THEN r
  ELSE
  LET r1 == IF msg.type = "start" THEN emit(r, "start", "", "") ELSE r
      r2 == IF msg.type = "stdout" THEN budgetedEmit(r1, "stdout", msg.text, "info") ELSE r1
      r3 == IF msg.type = "stderr" THEN budgetedEmit(r2, "stderr", msg.text, "warn") ELSE r2
      r4 == IF msg.type = "result" THEN emit(r3, "result", "", "") ELSE r3
      r5 == IF msg.type = "error" THEN emit(r4, "error", msg.text, "") ELSE r4
  IN r5

(* --------------------------- runJavaScript ----------------------------- *)

\* runJavaScript's emit: hands the event to the callback it was given,
\* which is runCode's adapter, inside a try whose catch is empty
js_emit(type, text, level) ==
  /\ js_events' = Append(js_events, Ev(type, text, level))
  /\ SetRunner(Caught(jsAdapter(Runner, Ev(type, text, level))))

\* cleanup that forgets window.removeEventListener
cleanup_keepListener ==
  /\ js_listening' = js_listening
  /\ iframe' = IF iframe = "attached" THEN "removed" ELSE iframe

cleanup ==
  /\ js_listening' = FALSE
  /\ iframe' = IF iframe = "attached" THEN "removed" ELSE iframe

\* a message of the harness: send(type, payload)
SbMsg(type, level, args, message) ==
  [runner |-> TRUE, token |-> execToken, type |-> type, level |-> level,
   args |-> args, message |-> message]

\* a filter that checks the marker and not the token
accepts_markerOnly(data) == data.runner = TRUE

\* the filter of handleMsg
accepts(data) == data.runner = TRUE /\ data.token = JsToken

\* the body of handleMsg for one message event
handleMsgBody(data) ==
  IF ~accepts(data) THEN
    UNCHANGED <<runnerVars, jsVars>>
  ELSE IF js_finished THEN
    UNCHANGED <<runnerVars, jsVars>>
  ELSE IF data.type = "log" THEN
    LET text == Join(data.args)
        bytes == Bytes(text)
    IN IF js_totalLogBytes + bytes <= MaxLogBytes THEN
         /\ js_totalLogBytes' = js_totalLogBytes + bytes
         /\ js_emit("log", text, OrElse(data.level, "log"))
         /\ UNCHANGED <<called, language, throwsOn, finished, timer, js_finished,
                        js_truncatedNotified, js_timer, js_listening, iframe>>
       ELSE IF ~js_truncatedNotified THEN
         /\ js_truncatedNotified' = TRUE
         /\ js_emit("log", Truncated, "warn")
         /\ UNCHANGED <<called, language, throwsOn, finished, timer, js_finished,
                        js_totalLogBytes, js_timer, js_listening, iframe>>
       ELSE UNCHANGED <<runnerVars, jsVars>>
  ELSE IF data.type = "error" THEN
    /\ js_emit("error", data.message, "")
    /\ js_finished' = TRUE
    /\ js_timer' = IF js_timer = "armed" THEN "cleared" ELSE js_timer
    /\ cleanup
    /\ UNCHANGED <<called, language, throwsOn, finished, timer, js_totalLogBytes, js_truncatedNotified>>
  ELSE IF data.type = "start" THEN
    /\ js_emit("start", "", "")
    /\ UNCHANGED <<called, language, throwsOn, finished, timer, js_finished, js_totalLogBytes,
                   js_truncatedNotified, js_timer, js_listening, iframe>>
  ELSE IF data.type = "done" THEN
    /\ js_emit("done", "", "")
    /\ js_finished' = TRUE
    /\ js_timer' = IF js_timer = "armed" THEN "cleared" ELSE js_timer
    /\ cleanup
    /\ UNCHANGED <<called, language, throwsOn, finished, timer, js_totalLogBytes, js_truncatedNotified>>
  ELSE UNCHANGED <<runnerVars, jsVars>>

\* history: a stop() before any terminal event remembers how many events
\* had been delivered
NoteStop ==
  /\ stopCalled' = TRUE
  /\ stopLen' = IF ~stopCalled
                   /\ \A i \in 1..Len(events) : events[i].type \notin Terminal
                  THEN Len(events) ELSE stopLen
  /\ initCtx' = initCtx


(* ------------------------- the snippet server -------------------------- *)

\* a field the request body does not have
Absent == "<absent>"

\* a string of n characters
RECURSIVE Rep(_)
Rep(n) == IF n = 0 THEN "" ELSE "a" \o Rep(n - 1)

\* the values of `code` in request bodies: t is what typeof gives
\* ("undefined" when the body has no code), s the string or the JSON text.
\* The strings have the lengths around the two limits.
CodeValues ==
  { [t |-> "string", s |-> Rep(n)] :
      n \in {0, MaxCodeLength, MaxCodeLength + 1, MaxBodyBytes + 1} }
  \cup { [t |-> "number", s |-> "42"], [t |-> "object", s |-> "null"],
         [t |-> "undefined", s |-> ""] }

\* the values of `language` and of `meta` (as JSON text) in request bodies
OtherFields ==
  { [language |-> Absent, meta |-> Absent],
    [language |-> "javascript", meta |-> "{\"title\":\"t\"}"] }

\* the bytes the body has besides its code
RestBytes == {0, MaxBodyBytes}

\* destructuring default: x = d
Default(x, d) == IF x = Absent THEN d ELSE x

\* nanoid(10): the n-th id it generates.  Ids are taken to be fresh; they
\* are 10 characters of A-Za-z0-9_-
NanoId(n) == "V1StGXR8_" \o ToString(n)

\* property names every object inherits from Object.prototype
InheritedKeys == {"constructor", "__proto__"}

\* the ids GET /api/snippets/:id is called with
RequestedIds == {NanoId(n) : n \in 1..MaxPosts} \cup InheritedKeys \cup {"0000000000"}

NoCode == [t |-> "none", s |-> ""]

\* a request and its response: code is the code of a POST, over that its
\* body was larger than express.json parses, body the snippet sent back, if any
Response(op, code, over, id, statusCode, body) ==
  [op |-> op, code |-> code, over |-> over, id |-> id, status |-> statusCode,
   body |-> body]

NoResponse == Response("", NoCode, FALSE, "", 0, {})

\* a validation that rejects a code of exactly the maximal length as well
invalid_atLimit(code) == code.t # "string" \/ Len(code.s) >= MaxCodeLength

\* typeof code !== 'string' || code.length > 200000
invalid(code) == code.t # "string" \/ Len(code.s) > MaxCodeLength

\* all[id] is truthy: an own entry (a snippet object) or a member inherited
\* from Object.prototype (an object or a function)
Truthy(data, id) == id \in DOMAIN data \/ id \in InheritedKeys

\* data with data[id] = v
Put(data, id, v) == [k \in DOMAIN data \cup {id} |-> IF k = id THEN v ELSE data[k]]

(* ---------------------------- the Python Lab --------------------------- *)

\* the runs of the Lab, and the executors it can make: the one of the mount
\* effect and one for each Stop
LabRuns == 1..MaxLabRuns
Execs == 1..(MaxLabRuns + 1)

\* the listener the mount effect registers, and the one-shot listener of
\* the run() call of run k
Panel == <<"panel", 0>>
ReadyOf(k) == <<"ready", k>>

\* new PythonExecutor(): the constructor
NewExecutor == [worker |-> "null", ready |-> FALSE, listeners |-> {}]

\* a worker: pc is "none" | "created" | "loading" | "failed" | "idle", run
\* is the run whose code it evaluates, 0 if none
NoWorker == [pc |-> "none", inbox |-> <<>>, run |-> 0]

\* a message between an executor and its worker
LabMsg(type, run, value) == [type |-> type, run |-> run, value |-> value]

\* the values of a run: None, which is posted as '', and another
LabValues == {"", "42"}

\* the number of stages of App (compilationStages) and of CompilerAnimation
NumStages == 7
NumAnimStages == 5

(* ------------------------------- Init ---------------------------------- *)

Init ==
  /\ called = FALSE
  /\ language = ""
  /\ events = <<>>
  /\ totalLogBytes = 0
  /\ truncatedNotified = FALSE
  /\ tags = {}
  /\ throwsOn = {}
  /\ escaped = FALSE
  /\ finished = FALSE
  /\ timer = "none"
  /\ js_events = <<>>
  /\ js_finished = FALSE
  /\ js_totalLogBytes = 0
  /\ js_truncatedNotified = FALSE
  /\ js_timer = "none"
  /\ js_listening = FALSE
  /\ iframe = "none"
  /\ sb_pc = "none"
  /\ execToken = ""
  /\ sb_logs = 0
  /\ winQ = <<>>
  /\ noise = 0
  /\ worker = "null"
  /\ listeners = {}
  /\ ready = FALSE
  /\ wk_pc = "none"
  /\ initialized = FALSE
  /\ currentToken = ""
  /\ wk_inbox = <<>>
  /\ wk_writes = 0
  /\ pyQ = <<>>
  /\ stopCalled = FALSE
  /\ stopLen = -1
  /\ initCtx = [iframe |-> "", worker |-> ""]
  /\ runs = 0
  /\ gen = 0
  /\ wk_task = [k \in 1..MaxRuns |-> "none"]
  /\ post_std = 0
  /\ seen = {}
  /\ wk_posted = {}
  /\ readyBy = 0
  /\ all = <<>>
  /\ issued = <<>>
  /\ nIds = 0
  /\ clock = 0
  /\ res = NoResponse
  /\ running = FALSE
  /\ status = "Idle"
  /\ lines = <<>>
  /\ execRef = 1
  /\ timeoutRef = 0
  /\ countdown = 0
  /\ executors = [e \in Execs |->
                    IF e = 1 THEN [NewExecutor EXCEPT !.listeners = {Panel}]
                    ELSE NewExecutor]
  /\ workers = [e \in Execs |-> NoWorker]
  /\ outbox = [e \in Execs |-> <<>>]
  /\ timers = [k \in LabRuns |-> "none"]
  /\ closure = [k \in LabRuns |-> FALSE]
  /\ lab_runs = 0
  /\ lab_writes = 0
  /\ stoppedRuns = {}
  /\ finalSeen = {}
  /\ isCompiling = FALSE
  /\ compilationComplete = FALSE
  /\ currentStage = 0
  /\ intervals = 0
  /\ animationPhase = "idle"
  /\ animStage = 0
  /\ completions = 0
  /\ resetIdle = FALSE

(* ------------------------- runCode (one call) -------------------------- *)

\* runCode's closure after its first statement, emit('init', { runId }),
\* for the language and the callback of this call
firstEmit ==
  emitWith([RunnerOf(language') EXCEPT !.throwsOn = throwsOn'],
           "init", "", "", RunId(language'))

\* runCode left by an exception of its first emit: no branch is entered
runThrew ==
  /\ SetRunner(firstEmit)
  /\ UNCHANGED <<finished, timer, jsVars, sbVars, pyVars, wkVars>>

\* runJavaScript up to its return: emit('init'), the iframe, the listener,
\* the watchdog and the load listener
runJavaScript ==
  /\ js_events' = <<Ev("init", "", "")>>
  /\ SetRunner(Caught(jsAdapter(firstEmit, Ev("init", "", ""))))
  /\ iframe' = "attached"
  /\ sb_pc' = "loading"
  /\ js_finished' = FALSE
  /\ js_totalLogBytes' = 0
  /\ js_truncatedNotified' = FALSE
  /\ js_listening' = TRUE
  /\ js_timer' = "armed"
  /\ UNCHANGED <<finished, timer, execToken, sb_logs, winQ, noise, pyVars, wkVars>>

\* the python branch of runCode up to its return: new PythonExecutor,
\* py.onMessage, setTimeout, py.run(code) up to its await
runPython ==
  /\ SetRunner(firstEmit)
  /\ worker' = "w"
  /\ wk_pc' = "created"
  /\ initialized' = FALSE
  /\ wk_inbox' = <<[type |-> "init", token |-> PyToken]>>
  /\ ready' = FALSE
  /\ listeners' = {"runner", "oneshot"}
  /\ finished' = FALSE
  /\ timer' = "armed"
  /\ UNCHANGED <<jsVars, sbVars, currentToken, wk_writes, pyQ>>

\* an unsupported-language branch that reports the error and never ends the run
runUnsupported_errorOnly ==
  /\ SetRunner(emit(firstEmit, "error", "Unsupported language: " \o language', ""))
  /\ UNCHANGED <<finished, timer, jsVars, sbVars, pyVars, wkVars>>

runUnsupported ==
  /\ SetRunner(emit(emit(firstEmit, "error", "Unsupported language: " \o language', ""),
                    "done", "", ""))
  /\ UNCHANGED <<finished, timer, jsVars, sbVars, pyVars, wkVars>>

\* a runCode that emits its init after the branch has set the run up
contextAtInit_afterSetup == [iframe |-> iframe', worker |-> worker']

\* what exists when runCode emits its init: the statement comes before the
\* language branches, which create the iframe or the executor and its worker
contextAtInit == [iframe |-> iframe, worker |-> worker]

\* runCode({ language: l, code }, onEvent) with an onEvent that throws for
\* the event types in T
runCodeWith(l, T) ==
  /\ ~called
  /\ called' = TRUE
  /\ language' = l
  /\ throwsOn' = T
  /\ IF firstEmit.raised THEN runThrew
     ELSE IF IsJs(l) THEN runJavaScript
     ELSE IF IsPy(l) THEN runPython
     ELSE runUnsupported
  /\ initCtx' = contextAtInit
  /\ UNCHANGED <<stopCalled, stopLen, srvVars, labVars, appVars, execVars>>

\* runCode with an onEvent that returns normally
runCode(l) == runCodeWith(l, {})

(* ------------------------- the iframe harness -------------------------- *)

\* the iframe's load event: execute() posts { type: 'execute', code, token }
execute ==
  /\ iframe = "attached"
  /\ sb_pc = "loading"
  /\ sb_pc' = "posted"
  /\ UNCHANGED <<runnerVars, jsVars, execToken, sb_logs, winQ, noise, pyVars, wkVars, histVars, srvVars, labVars, appVars, execVars>>

\* a harness that runs the code without announcing it
sb_start_silent ==
  /\ iframe = "attached"
  /\ sb_pc = "posted"
  /\ execToken' = OrElse(JsToken, "")
  /\ sb_pc' = "running"
  /\ UNCHANGED <<runnerVars, jsVars, sb_logs, winQ, noise, pyVars, wkVars, histVars, srvVars, labVars, appVars, execVars>>

\* the harness receives 'execute': it keeps the token and sends 'start'
sb_start ==
  /\ iframe = "attached"
  /\ sb_pc = "posted"
  /\ execToken' = OrElse(JsToken, "")
  /\ winQ' = Append(winQ, [runner |-> TRUE, token |-> OrElse(JsToken, ""),
                           type |-> "start", level |-> "", args |-> <<>>,
                           message |-> ""])
  /\ sb_pc' = "running"
  /\ UNCHANGED <<runnerVars, jsVars, sb_logs, noise, pyVars, wkVars, histVars, srvVars, labVars, appVars, execVars>>

\* the submitted code calls console[l](...args), while fn() runs or later
\* from a callback it left behind
sb_console(l, args) ==
  /\ iframe = "attached"
  /\ sb_pc \in {"running", "returned", "threw"}
  /\ sb_logs < MaxLogs
  /\ sb_logs' = sb_logs + 1
  /\ winQ' = Append(winQ, SbMsg("log", l, args, ""))
  /\ UNCHANGED <<runnerVars, jsVars, sb_pc, execToken, noise, pyVars, wkVars, histVars, srvVars, labVars, appVars, execVars>>

\* fn() returned
sb_done ==
  /\ iframe = "attached"
  /\ sb_pc = "running"
  /\ sb_pc' = "returned"
  /\ winQ' = Append(winQ, SbMsg("done", "", <<>>, ""))
  /\ UNCHANGED <<runnerVars, jsVars, execToken, sb_logs, noise, pyVars, wkVars, histVars, srvVars, labVars, appVars, execVars>>

\* fn() threw an exception with message m
sb_throw(m) ==
  /\ iframe = "attached"
  /\ sb_pc = "running"
  /\ sb_pc' = "threw"
  /\ winQ' = Append(winQ, SbMsg("error", "", <<>>, m))
  /\ UNCHANGED <<runnerVars, jsVars, execToken, sb_logs, noise, pyVars, wkVars, histVars, srvVars, labVars, appVars, execVars>>



(* ------------------- runJavaScript: host-side tasks -------------------- *)

\* one 'message' event of window
handleMsg ==
  /\ winQ # <<>>
  /\ winQ' = Tail(winQ)
  /\ IF js_listening THEN handleMsgBody(Head(winQ))
     ELSE UNCHANGED <<runnerVars, jsVars>>
  /\ UNCHANGED <<sb_pc, execToken, sb_logs, noise, pyVars, wkVars, histVars, srvVars, labVars, appVars, execVars>>

\* one 'message' event of window whose data does not come from this run's
\* harness.  Messages of different sources are not ordered with respect to
\* each other, so the event is dispatched wherever it is posted.
foreignMessage(m) ==
  /\ js_listening
  /\ noise < MaxNoise
  /\ noise' = noise + 1
  /\ handleMsgBody(m)
  /\ UNCHANGED <<sb_pc, execToken, sb_logs, winQ, pyVars, wkVars, histVars, srvVars, labVars, appVars, execVars>>

\* a watchdog that tears the run down without reporting it
js_timeout_silent ==
  /\ js_timer = "armed"
  /\ js_timer' = "fired"
  /\ IF ~js_finished
       THEN /\ js_finished' = TRUE
            /\ cleanup
            /\ UNCHANGED <<events, totalLogBytes, truncatedNotified, tags, escaped, js_events>>
       ELSE UNCHANGED <<events, totalLogBytes, truncatedNotified, tags, escaped, js_events,
                        js_finished, js_listening, iframe>>
  /\ UNCHANGED <<called, language, throwsOn, finished, timer, js_totalLogBytes,
                 js_truncatedNotified, sbVars, pyVars, wkVars, histVars, srvVars, labVars, appVars, execVars>>

\* a watchdog that reports the timeout and leaves the run alive
js_timeout_noCleanup ==
  /\ js_timer = "armed"
  /\ js_timer' = "fired"
  /\ IF ~js_finished
       THEN /\ js_emit("timeout", "", "")
            /\ UNCHANGED <<js_finished, js_listening, iframe>>
       ELSE UNCHANGED <<events, totalLogBytes, truncatedNotified, tags, escaped, js_events,
                        js_finished, js_listening, iframe>>
  /\ UNCHANGED <<called, language, throwsOn, finished, timer, js_totalLogBytes,
                 js_truncatedNotified, sbVars, pyVars, wkVars, histVars, srvVars, labVars, appVars, execVars>>

\* the watchdog set by runJavaScript
js_timeout ==
  /\ js_timer = "armed"
  /\ js_timer' = "fired"
  /\ IF ~js_finished
       THEN /\ js_emit("timeout", "", "")
            /\ js_finished' = TRUE
            /\ cleanup
       ELSE UNCHANGED <<events, totalLogBytes, truncatedNotified, tags, escaped, js_events,
                        js_finished, js_listening, iframe>>
  /\ UNCHANGED <<called, language, throwsOn, finished, timer, js_totalLogBytes,
                 js_truncatedNotified, sbVars, pyVars, wkVars, histVars, srvVars, labVars, appVars, execVars>>

\* a stop that removes the iframe and forgets clearTimeout
js_stop_keepTimer ==
  /\ cleanup
  /\ UNCHANGED <<runnerVars, js_events, js_finished, js_totalLogBytes,
                 js_truncatedNotified, js_timer, sbVars, pyVars, wkVars>>

\* the stop returned by runJavaScript
js_stop ==
  /\ js_timer' = IF js_timer = "armed" THEN "cleared" ELSE js_timer
  /\ cleanup
  /\ UNCHANGED <<runnerVars, js_events, js_finished, js_totalLogBytes,
                 js_truncatedNotified, sbVars, pyVars, wkVars>>


(* ------------------------------ pyWorker ------------------------------- *)

\* a message of the worker; every one echoes currentToken, and the runId of
\* the 'run' message where there is one ("" stands for null or absent)
WkMsg(type, runId, text) ==
  [type |-> type, token |-> currentToken, runId |-> runId, text |-> text]

\* self.onmessage, 'init': keeps the token and starts loading pyodide
wk_init ==
  /\ wk_pc = "created"
  /\ wk_inbox # <<>>
  /\ Head(wk_inbox).type = "init"
  /\ currentToken' = OrElse(Head(wk_inbox).token, "")
  /\ wk_inbox' = Tail(wk_inbox)
  /\ wk_pc' = "loading"
  /\ initialized' = initialized
  /\ UNCHANGED <<runnerVars, jsVars, sbVars, pyVars, wk_writes, pyQ, histVars, srvVars, labVars, appVars, execVars>>

\* loadPyodideIfNeeded resolved: 'ready' is posted
wk_ready ==
  /\ wk_pc = "loading"
  /\ pyQ' = Append(pyQ, WkMsg("ready", "", ""))
  /\ wk_pc' = "idle"
  /\ initialized' = TRUE
  /\ UNCHANGED <<runnerVars, jsVars, sbVars, pyVars, currentToken, wk_inbox, wk_writes, histVars, srvVars, labVars, appVars, execVars>>

\* loadPyodideIfNeeded threw: the outer catch posts 'error' with runId null
wk_loadFailed ==
  /\ wk_pc = "loading"
  /\ pyQ' = Append(pyQ, WkMsg("error", "", ""))
  /\ wk_pc' = "failed"
  /\ initialized' = initialized
  /\ UNCHANGED <<runnerVars, jsVars, sbVars, pyVars, currentToken, wk_inbox, wk_writes, histVars, srvVars, labVars, appVars, execVars>>

\* self.onmessage, 'run': token check, post_std bridge, 'start', redirection
wk_run ==
  /\ wk_pc = "idle"
  /\ wk_inbox # <<>>
  /\ Head(wk_inbox).type = "run"
  /\ wk_inbox' = Tail(wk_inbox)
  /\ IF Head(wk_inbox).token = "" \/ Head(wk_inbox).token # currentToken
       THEN UNCHANGED <<wk_pc, initialized, pyQ>>
       ELSE /\ pyQ' = Append(pyQ, WkMsg("start", Head(wk_inbox).runId, ""))
            /\ wk_pc' = "running"
            /\ initialized' = initialized
  /\ UNCHANGED <<runnerVars, jsVars, sbVars, pyVars, currentToken, wk_writes, histVars, srvVars, labVars, appVars, execVars>>

\* the submitted code writes to sys.stdout / sys.stderr: postStd(kind, text)
wk_write(kind, text) ==
  /\ wk_pc = "running"
  /\ wk_writes < MaxLogs
  /\ wk_writes' = wk_writes + 1
  /\ pyQ' = Append(pyQ, WkMsg(kind, PyRunId, text))
  /\ UNCHANGED <<runnerVars, jsVars, sbVars, pyVars, wk_pc, initialized, currentToken, wk_inbox, histVars, srvVars, labVars, appVars, execVars>>

\* runPythonAsync(code) resolved
wk_result ==
  /\ wk_pc = "running"
  /\ wk_pc' = "ended"
  /\ initialized' = initialized
  /\ pyQ' = Append(pyQ, WkMsg("result", PyRunId, ""))
  /\ UNCHANGED <<runnerVars, jsVars, sbVars, pyVars, currentToken, wk_inbox, wk_writes, histVars, srvVars, labVars, appVars, execVars>>

\* runPythonAsync(code) rejected
wk_raise ==
  /\ wk_pc = "running"
  /\ wk_pc' = "ended"
  /\ initialized' = initialized
  /\ pyQ' = Append(pyQ, WkMsg("error", PyRunId, ""))
  /\ UNCHANGED <<runnerVars, jsVars, sbVars, pyVars, currentToken, wk_inbox, wk_writes, histVars, srvVars, labVars, appVars, execVars>>

(* --------------------- PythonExecutor: host side ----------------------- *)

\* a dispose that drops the reference and forgets to terminate the worker
dispose_noTerminate ==
  /\ wk_pc' = wk_pc
  /\ initialized' = initialized
  /\ pyQ' = pyQ
  /\ worker' = "null"
  /\ ready' = FALSE
  /\ listeners' = {}

\* PythonExecutor.dispose.  Worker.terminate() stops the worker and empties
\* the message queue of its port (HTML Standard, "terminate a worker"): what
\* the worker had posted and the host had not yet dispatched is discarded.
dispose ==
  /\ wk_pc' = IF worker # "null" THEN "terminated" ELSE wk_pc
  /\ initialized' = IF worker # "null" THEN FALSE ELSE initialized
  /\ pyQ' = IF worker # "null" THEN <<>> ELSE pyQ
  /\ worker' = "null"
  /\ ready' = FALSE
  /\ listeners' = {}

\* the continuation of py.run(code) after its await, and the finally
\* callback runCode chained to it; both are microtasks of the task that
\* resolved the one-shot promise.  The promise finally returns is given an
\* empty catch.
runContinuation(r) ==
  /\ wk_inbox' = Append(wk_inbox, [type |-> "run", token |-> PyToken, runId |-> PyRunId])
  /\ IF ~finished
       THEN /\ finished' = TRUE
            /\ timer' = IF timer = "armed" THEN "cleared" ELSE timer
            /\ SetRunner(Caught(emit(r, "done", "", "")))
       ELSE /\ UNCHANGED <<finished, timer>>
            /\ SetRunner(r)

\* the filter of worker.onmessage: msg.token && msg.token !== this.token
ignores(msg) == msg.token # "" /\ msg.token # PyToken

\* worker.onmessage for one message event; each listener is called in a try
\* whose catch is empty
onmessage ==
  /\ pyQ # <<>>
  /\ pyQ' = Tail(pyQ)
  /\ LET msg == Head(pyQ) IN
     IF ignores(msg) THEN
       UNCHANGED <<events, totalLogBytes, truncatedNotified, tags, escaped, finished, timer,
                   pyVars, wk_inbox>>
     ELSE
       LET r == IF "runner" \in listeners THEN Caught(pyAdapter(Runner, msg)) ELSE Runner IN
       /\ ready' = IF msg.type = "ready" THEN TRUE ELSE ready
       /\ IF "oneshot" \in listeners /\ msg.type = "ready"
            THEN /\ listeners' = listeners \ {"oneshot"}
                 /\ runContinuation(r)
            ELSE /\ SetRunner(r)
                 /\ UNCHANGED <<listeners, finished, timer, wk_inbox>>
       /\ UNCHANGED worker
  /\ UNCHANGED <<called, language, throwsOn, jsVars, sbVars, wk_pc, initialized, currentToken, wk_writes, histVars, srvVars, labVars, appVars, execVars>>

\* the timer set by the python branch of runCode
py_timeout ==
  /\ timer = "armed"
  /\ timer' = "fired"
  /\ IF ~finished
       THEN LET r == emit(Runner, "timeout", "", "") IN
            /\ SetRunner(r)
            /\ IF r.raised THEN UNCHANGED <<pyVars, wk_pc, initialized, pyQ>>
               ELSE dispose
       ELSE UNCHANGED <<events, totalLogBytes, truncatedNotified, tags, escaped, pyVars, wk_pc, initialized, pyQ>>
  /\ UNCHANGED <<called, language, throwsOn, finished, jsVars, sbVars, currentToken,
                 wk_inbox, wk_writes, histVars, srvVars, labVars, appVars, execVars>>

\* a stop that clears the timer and removes the listener, and leaves the
\* executor as it is
py_stop_noDispose ==
  /\ timer' = IF timer = "armed" THEN "cleared" ELSE timer
  /\ listeners' = listeners \ {"runner"}
  /\ UNCHANGED <<called, language, throwsOn, events, totalLogBytes, truncatedNotified, tags, escaped, finished,
                 jsVars, sbVars, currentToken, wk_inbox, wk_writes, wk_pc, initialized, pyQ, worker, ready>>

\* the stop of the python branch of runCode
py_stop ==
  /\ timer' = IF timer = "armed" THEN "cleared" ELSE timer
  /\ dispose
  /\ UNCHANGED <<called, language, throwsOn, events, totalLogBytes, truncatedNotified, tags, escaped, finished,
                 jsVars, sbVars, currentToken, wk_inbox, wk_writes>>

(* ------------------------------- stop ---------------------------------- *)

\* the consumer calls the stop() of the handle runCode returned
stop ==
  /\ called
  /\ NoteStop
  /\ IF IsJs(language) THEN js_stop
     ELSE IF IsPy(language) THEN py_stop
     ELSE UNCHANGED <<runnerVars, jsVars, sbVars, pyVars, wkVars>>
  /\ UNCHANGED <<execVars, srvVars, labVars, appVars>>

(* --------------------------- specification ----------------------------- *)

Next ==
  \/ \E l \in Languages : runCode(l)
  \/ execute
  \/ sb_start
  \/ \E c \in ConsoleCalls : sb_console(c.level, c.args)
  \/ sb_done
  \/ \E m \in Thrown : sb_throw(m)
  \/ handleMsg
  \/ js_timeout
  \/ wk_init
  \/ wk_ready
  \/ wk_loadFailed
  \/ wk_run
  \/ \E w \in Writes : wk_write(w.kind, w.text)
  \/ wk_result
  \/ wk_raise
  \/ onmessage
  \/ py_timeout
  \/ stop

Spec == Init /\ [][Next]_vars

\* the same program on a page where other sources post to the window
NoisyNext ==
  \/ Next
  \/ \E m \in ForeignMessages : foreignMessage(m)

NoisySpec == Init /\ [][NoisyNext]_vars


\* timers fire and posted messages are dispatched: the host event loop
\* runs every task that is ready.  Nothing is assumed of the submitted
\* code, the iframe, the worker or the consumer's stop().
FairSpec ==
  /\ Spec
  /\ WF_vars(handleMsg)
  /\ WF_vars(js_timeout)
  /\ WF_vars(onmessage)
  /\ WF_vars(py_timeout)

(* ------------------ runCode with a callback that throws ---------------- *)

\* the types of the events of the protocol (virtualizer.js line 6)
EventTypes == {"init", "start", "stdout", "stderr", "log", "result", "error",
               "done", "timeout"}

\* the callbacks tried: one that throws for the first event, for the output,
\* for the events of the lifecycle, for every event
ThrowSets ==
  { {"init"},
    {"stdout", "stderr", "log"},
    {"start", "result", "error", "done", "timeout"},
    EventTypes }

ThrowNext ==
  \/ Next
  \/ \E l \in Languages, T \in ThrowSets : runCodeWith(l, T)

ThrowSpec == Init /\ [][ThrowNext]_vars

(* ------------- a PythonExecutor used directly by a consumer ------------ *)

\* the listeners: the callback the consumer registers with onMessage, and
\* the one-shot listener of the k-th run() call
Consumer == <<"cb", 0>>
Once(k) == <<"once", k>>

\* a message of the worker: the fields of the protocol and, for the record,
\* by: the run whose handler or code posted it (0: the init handler), and
\* from: the worker that posted it
PwMsg(type, token, runId, text, by) ==
  [type |-> type, token |-> token, runId |-> runId, text |-> text,
   by |-> by, from |-> gen]

\* self.postMessage(m)
post(m) ==
  /\ pyQ' = Append(pyQ, m)
  /\ wk_posted' = wk_posted \cup {[type |-> m.type, runId |-> m.runId, by |-> m.by]}

\* the 'run' message of the k-th run() call
RunMsg(k) == [type |-> "run", token |-> PyToken, runId |-> k]

\* the continuations of the run() calls whose one-shot listener is in S:
\* each posts its 'run' message; promises resolve in the order they were made
RECURSIVE PostRuns(_, _)
PostRuns(S, k) ==
  IF k > MaxRuns THEN <<>>
  ELSE (IF Once(k) \in S THEN <<RunMsg(k)>> ELSE <<>>) \o PostRuns(S, k + 1)

\* PythonExecutor.onMessage(cb)
px_onMessage ==
  /\ Consumer \notin listeners
  /\ listeners' = listeners \cup {Consumer}
  /\ UNCHANGED <<runnerVars, jsVars, sbVars, histVars, srvVars, labVars, appVars, worker, ready, wkVars, execVars>>

\* a run() whose ensureWorker constructs a worker on every call
px_run_newWorker ==
  /\ runs < MaxRuns
  /\ runs' = runs + 1
  /\ worker' = "w"
  /\ gen' = gen + 1
  /\ wk_pc' = "created"
  /\ initialized' = FALSE
  /\ currentToken' = ""
  /\ post_std' = 0
  /\ wk_inbox' = <<[type |-> "init", token |-> PyToken]>>
  /\ listeners' = listeners \cup {Once(runs + 1)}
  /\ UNCHANGED <<runnerVars, jsVars, sbVars, histVars, srvVars, labVars, appVars, ready, wk_writes, pyQ,
                 wk_task, seen, wk_posted, readyBy>>

\* a run() that submits the code without awaiting readiness
px_run_eager ==
  /\ runs < MaxRuns
  /\ runs' = runs + 1
  /\ IF worker = "null"
       THEN /\ worker' = "w"
            /\ gen' = gen + 1
            /\ wk_pc' = "created"
            /\ initialized' = FALSE
            /\ currentToken' = ""
            /\ post_std' = 0
            /\ wk_inbox' = <<[type |-> "init", token |-> PyToken], RunMsg(runs + 1)>>
       ELSE /\ UNCHANGED <<worker, gen, wk_pc, initialized, currentToken, post_std>>
            /\ wk_inbox' = Append(wk_inbox, RunMsg(runs + 1))
  /\ UNCHANGED <<runnerVars, jsVars, sbVars, histVars, srvVars, labVars, appVars, ready, listeners, wk_writes, pyQ,
                 wk_task, seen, wk_posted, readyBy>>

\* PythonExecutor.run(code): ensureWorker, then either the one-shot listener
\* and the await, or the 'run' message at once
px_run ==
  /\ runs < MaxRuns
  /\ runs' = runs + 1
  /\ IF worker = "null"
       THEN /\ worker' = "w"
            /\ gen' = gen + 1
            /\ wk_pc' = "created"
            /\ initialized' = FALSE
            /\ currentToken' = ""
            /\ post_std' = 0
            /\ wk_inbox' = <<[type |-> "init", token |-> PyToken]>>
            /\ listeners' = listeners \cup {Once(runs + 1)}
       ELSE /\ UNCHANGED <<worker, gen, wk_pc, initialized, currentToken, post_std>>
            /\ IF ready
                 THEN /\ wk_inbox' = Append(wk_inbox, RunMsg(runs + 1))
                      /\ UNCHANGED listeners
                 ELSE /\ listeners' = listeners \cup {Once(runs + 1)}
                      /\ UNCHANGED wk_inbox
  /\ UNCHANGED <<runnerVars, jsVars, sbVars, histVars, srvVars, labVars, appVars, ready, wk_writes, pyQ,
                 wk_task, seen, wk_posted, readyBy>>

\* PythonExecutor.dispose(), called by the consumer; terminate() aborts
\* whatever the worker was running
px_dispose ==
  /\ dispose
  /\ wk_task' = [k \in 1..MaxRuns |->
                   IF worker # "null" /\ wk_task[k] # "none" THEN "killed" ELSE wk_task[k]]
  /\ UNCHANGED <<runnerVars, jsVars, sbVars, histVars, srvVars, labVars, appVars, currentToken, wk_inbox, wk_writes,
                 runs, gen, post_std, seen, wk_posted, readyBy>>

\* worker.onmessage for one message event
px_onmessage ==
  /\ pyQ # <<>>
  /\ pyQ' = Tail(pyQ)
  /\ LET msg == Head(pyQ)
         resolved == IF msg.type = "ready" THEN {l \in listeners : l[1] = "once"} ELSE {}
     IN IF ignores(msg) THEN
          UNCHANGED <<ready, readyBy, listeners, seen, wk_inbox>>
        ELSE
          /\ ready' = IF msg.type = "ready" THEN TRUE ELSE ready
          /\ readyBy' = IF msg.type = "ready" THEN msg.from ELSE readyBy
          /\ seen' = IF listeners # {}
                       THEN seen \cup {[token |-> msg.token, from |-> msg.from, at |-> gen]}
                       ELSE seen
          /\ listeners' = listeners \ resolved
          /\ wk_inbox' = wk_inbox \o PostRuns(resolved, 1)
  /\ UNCHANGED <<runnerVars, jsVars, sbVars, histVars, srvVars, labVars, appVars, worker, wk_pc, initialized, currentToken,
                 wk_writes, runs, gen, wk_task, post_std, wk_posted>>

(* pyWorker, with the handlers of several 'run' messages in progress: a    *)
(* handler runs to its next await, where the handler of a later message    *)
(* may start.                                                              *)

\* loadPyodideIfNeeded resolved in the init handler: 'ready' is posted
pw_ready ==
  /\ wk_pc = "loading"
  /\ wk_pc' = "idle"
  /\ initialized' = TRUE
  /\ post(PwMsg("ready", currentToken, 0, "", 0))
  /\ UNCHANGED <<runnerVars, jsVars, sbVars, histVars, srvVars, labVars, appVars, pyVars, currentToken, wk_inbox,
                 wk_writes, runs, gen, wk_task, post_std, seen, readyBy>>

\* loadPyodideIfNeeded threw in the init handler: the outer catch
pw_loadFailed ==
  /\ wk_pc = "loading"
  /\ wk_pc' = "failed"
  /\ initialized' = initialized
  /\ post(PwMsg("error", currentToken, 0, "load failed", 0))
  /\ UNCHANGED <<runnerVars, jsVars, sbVars, histVars, srvVars, labVars, appVars, pyVars, currentToken, wk_inbox,
                 wk_writes, runs, gen, wk_task, post_std, seen, readyBy>>

\* self.onmessage, 'run', up to the await of the redirection script: token
\* check, postStd closed over runId, the post_std bridge, 'start'
pw_run ==
  /\ wk_pc = "idle"
  /\ wk_inbox # <<>>
  /\ Head(wk_inbox).type = "run"
  /\ wk_inbox' = Tail(wk_inbox)
  /\ LET msg == Head(wk_inbox) IN
     IF msg.token = "" \/ msg.token # currentToken
       THEN /\ wk_task' = [wk_task EXCEPT ![msg.runId] = "dropped"]
            /\ UNCHANGED <<post_std, pyQ, wk_posted>>
       ELSE /\ post_std' = msg.runId
            /\ post(PwMsg("start", currentToken, msg.runId, "", msg.runId))
            /\ wk_task' = [wk_task EXCEPT ![msg.runId] = "redirecting"]
  /\ UNCHANGED <<runnerVars, jsVars, sbVars, histVars, srvVars, labVars, appVars, pyVars, wk_pc, initialized, currentToken,
                 wk_writes, runs, gen, seen, readyBy>>

\* the redirection script has run: runPythonAsync(code) is called
pw_redirected(k) ==
  /\ wk_pc = "idle"
  /\ wk_task[k] = "redirecting"
  /\ wk_task' = [wk_task EXCEPT ![k] = "evaluating"]
  /\ UNCHANGED <<runnerVars, jsVars, sbVars, histVars, srvVars, labVars, appVars, pyVars, wkVars,
                 runs, gen, post_std, seen, wk_posted, readyBy>>

\* the redirection script raised, which takes code of an earlier run that
\* broke the interpreter it shares (its import machinery, its sys module):
\* the outer catch posts 'error' with runId null
pw_redirectFailed(k) ==
  /\ wk_pc = "idle"
  /\ wk_task[k] = "redirecting"
  /\ \E j \in 1..MaxRuns : j # k /\ wk_task[j] \in {"evaluating", "finished"}
  /\ wk_task' = [wk_task EXCEPT ![k] = "finished"]
  /\ post(PwMsg("error", currentToken, 0, "redirection failed", k))
  /\ UNCHANGED <<runnerVars, jsVars, sbVars, histVars, srvVars, labVars, appVars, pyVars, wk_pc, initialized, currentToken,
                 wk_inbox, wk_writes, runs, gen, post_std, seen, readyBy>>

\* the code of run k writes to sys.stdout / sys.stderr: the catcher calls
\* js.post_std, the bridge of the run that set it last
pw_write(k, kind, text) ==
  /\ wk_pc = "idle"
  /\ wk_task[k] = "evaluating"
  /\ wk_writes < MaxWrites
  /\ wk_writes' = wk_writes + 1
  /\ post(PwMsg(kind, currentToken, post_std, text, k))
  /\ UNCHANGED <<runnerVars, jsVars, sbVars, histVars, srvVars, labVars, appVars, pyVars, wk_pc, initialized, currentToken,
                 wk_inbox, runs, gen, wk_task, post_std, seen, readyBy>>

\* the code of run k calls js.postMessage itself
pw_forge(k, m) ==
  /\ wk_pc = "idle"
  /\ wk_task[k] = "evaluating"
  /\ wk_writes < MaxWrites
  /\ wk_writes' = wk_writes + 1
  /\ post(PwMsg(m.type, m.token, 0, m.text, k))
  /\ UNCHANGED <<runnerVars, jsVars, sbVars, histVars, srvVars, labVars, appVars, pyVars, wk_pc, initialized, currentToken,
                 wk_inbox, runs, gen, wk_task, post_std, seen, readyBy>>

\* runPythonAsync(code) resolved for run k
pw_result(k) ==
  /\ wk_pc = "idle"
  /\ wk_task[k] = "evaluating"
  /\ wk_task' = [wk_task EXCEPT ![k] = "finished"]
  /\ post(PwMsg("result", currentToken, k, "", k))
  /\ UNCHANGED <<runnerVars, jsVars, sbVars, histVars, srvVars, labVars, appVars, pyVars, wk_pc, initialized, currentToken,
                 wk_inbox, wk_writes, runs, gen, post_std, seen, readyBy>>

\* runPythonAsync(code) rejected for run k
pw_raise(k) ==
  /\ wk_pc = "idle"
  /\ wk_task[k] = "evaluating"
  /\ wk_task' = [wk_task EXCEPT ![k] = "finished"]
  /\ post(PwMsg("error", currentToken, k, "raised", k))
  /\ UNCHANGED <<runnerVars, jsVars, sbVars, histVars, srvVars, labVars, appVars, pyVars, wk_pc, initialized, currentToken,
                 wk_inbox, wk_writes, runs, gen, post_std, seen, readyBy>>

\* the kinds of stream the submitted code writes to, with a short text
StreamWrites == {w \in Writes : w.text = "hi"}

ExecNext ==
  \/ px_onMessage
  \/ px_run
  \/ px_dispose
  \/ px_onmessage
  \/ wk_init
  \/ pw_ready
  \/ pw_loadFailed
  \/ pw_run
  \/ \E k \in 1..MaxRuns : pw_redirected(k)
  \/ \E k \in 1..MaxRuns : pw_redirectFailed(k)
  \/ \E k \in 1..MaxRuns, w \in StreamWrites : pw_write(k, w.kind, w.text)
  \/ \E k \in 1..MaxRuns, m \in ForgedMessages : pw_forge(k, m)
  \/ \E k \in 1..MaxRuns : pw_result(k)
  \/ \E k \in 1..MaxRuns : pw_raise(k)

ExecSpec == Init /\ [][ExecNext]_vars

(* --------------- pyWorker under any client of its protocol ------------- *)

\* the token of the client's k-th 'run' message: none, the token of another
\* session, the token of its init
ClientToken(k) == IF k = 1 THEN "" ELSE IF k = 2 THEN "tokZ" ELSE PyToken

\* new Worker(...)
wk_spawn ==
  /\ wk_pc = "none"
  /\ wk_pc' = "created"
  /\ initialized' = FALSE
  /\ UNCHANGED <<runnerVars, jsVars, sbVars, pyVars, histVars, srvVars, labVars, appVars, execVars,
                 currentToken, wk_inbox, wk_writes, pyQ>>

\* the client posts { type: 'init', token }, once
client_init ==
  /\ wk_pc = "created"
  /\ \A i \in 1..Len(wk_inbox) : wk_inbox[i].type # "init"
  /\ wk_inbox' = Append(wk_inbox, [type |-> "init", token |-> PyToken])
  /\ UNCHANGED <<runnerVars, jsVars, sbVars, pyVars, histVars, srvVars, labVars, appVars, execVars,
                 wk_pc, initialized, currentToken, wk_writes, pyQ>>

\* the client posts its next { type: 'run', token, runId, code }, at any
\* time: before init, while pyodide loads, after the load failed
client_run ==
  /\ wk_pc # "none"
  /\ runs < MaxRuns
  /\ runs' = runs + 1
  /\ wk_inbox' = Append(wk_inbox, [type |-> "run", token |-> ClientToken(runs + 1),
                                   runId |-> runs + 1])
  /\ UNCHANGED <<runnerVars, jsVars, sbVars, pyVars, histVars, srvVars, labVars, appVars,
                 wk_pc, initialized, currentToken, wk_writes, pyQ,
                 gen, wk_task, post_std, seen, wk_posted, readyBy>>

\* self.onmessage 'run' from the token check on, for the k-th run message:
\* return, or the post_std bridge and 'start'
checkToken(k) ==
  IF ClientToken(k) = "" \/ ClientToken(k) # currentToken
    THEN /\ wk_task' = [wk_task EXCEPT ![k] = "dropped"]
         /\ UNCHANGED <<post_std, pyQ, wk_posted>>
    ELSE /\ post_std' = k
         /\ post(PwMsg("start", currentToken, k, "", k))
         /\ wk_task' = [wk_task EXCEPT ![k] = "redirecting"]

\* self.onmessage up to its first await that does not resolve at once
wk_onmessage ==
  /\ wk_pc \in {"created", "loading", "failed", "idle"}
  /\ wk_inbox # <<>>
  /\ wk_inbox' = Tail(wk_inbox)
  /\ LET msg == Head(wk_inbox) IN
     IF msg.type = "init" THEN
       /\ currentToken' = OrElse(msg.token, "")
       /\ IF initialized
            THEN /\ wk_pc' = "idle"
                 /\ post(PwMsg("ready", OrElse(msg.token, ""), 0, "", 0))
            ELSE /\ wk_pc' = "loading"
                 /\ UNCHANGED <<pyQ, wk_posted>>
       /\ UNCHANGED <<initialized, wk_task, post_std>>
     ELSE IF ~initialized THEN
       /\ wk_task' = [wk_task EXCEPT ![msg.runId] = "loading"]
       /\ UNCHANGED <<wk_pc, initialized, currentToken, post_std, pyQ, wk_posted>>
     ELSE
       /\ checkToken(msg.runId)
       /\ UNCHANGED <<wk_pc, initialized, currentToken>>
  /\ UNCHANGED <<runnerVars, jsVars, sbVars, pyVars, histVars, srvVars, labVars, appVars, wk_writes,
                 runs, gen, seen, readyBy>>

\* loadPyodideIfNeeded resolved in the handler of the k-th run message
wk_runLoaded(k) ==
  /\ wk_task[k] = "loading"
  /\ initialized' = TRUE
  /\ checkToken(k)
  /\ UNCHANGED <<runnerVars, jsVars, sbVars, pyVars, histVars, srvVars, labVars, appVars, wk_pc,
                 currentToken, wk_inbox, wk_writes, runs, gen, seen, readyBy>>

\* loadPyodideIfNeeded threw in the handler of the k-th run message: the
\* outer catch posts 'error' with runId null
wk_runLoadFailed(k) ==
  /\ wk_task[k] = "loading"
  /\ wk_task' = [wk_task EXCEPT ![k] = "finished"]
  /\ post(PwMsg("error", currentToken, 0, "load failed", k))
  /\ UNCHANGED <<runnerVars, jsVars, sbVars, pyVars, histVars, srvVars, labVars, appVars, wk_pc, initialized,
                 currentToken, wk_inbox, wk_writes, runs, gen, post_std, seen, readyBy>>

WorkerNext ==
  \/ wk_spawn
  \/ client_init
  \/ client_run
  \/ wk_onmessage
  \/ pw_ready
  \/ pw_loadFailed
  \/ \E k \in 1..MaxRuns : wk_runLoaded(k)
  \/ \E k \in 1..MaxRuns : wk_runLoadFailed(k)

WorkerSpec == Init /\ [][WorkerNext]_vars

(* ---------------------- the Python Lab: the panel ---------------------- *)

\* the callback the mount effect registers with onMessage
labHandler(m) ==
  IF m.type = "ready" THEN
    /\ status' = "Ready"
    /\ UNCHANGED <<running, lines>>
  ELSE IF m.type = "stdout" THEN
    /\ lines' = Append(lines, [type |-> "out", run |-> m.run])
    /\ UNCHANGED <<running, status>>
  ELSE IF m.type = "stderr" THEN
    /\ lines' = Append(lines, [type |-> "err", run |-> m.run])
    /\ UNCHANGED <<running, status>>
  ELSE IF m.type = "result" THEN
    /\ running' = FALSE
    /\ status' = "Done"
    /\ lines' = IF m.value # "" THEN Append(lines, [type |-> "res", run |-> m.run])
                ELSE lines
  ELSE IF m.type = "error" THEN
    /\ running' = FALSE
    /\ status' = "Error"
    /\ lines' = Append(lines, [type |-> "err", run |-> m.run])
  ELSE UNCHANGED <<running, status, lines>>

\* the run messages of the run() calls in S, in the order of the calls
RECURSIVE LabRunMsgs(_, _)
LabRunMsgs(S, k) ==
  IF k > MaxLabRuns THEN <<>>
  ELSE (IF k \in S THEN <<LabMsg("run", k, "")>> ELSE <<>>) \o LabRunMsgs(S, k + 1)

\* the greatest run of a non-empty set of runs
LastOf(S) == CHOOSE k \in S : \A j \in S : j <= k

\* the rest of run() after `await execRef.current.run(program)`, for the
\* calls in S in their order: clearTimeout(timeoutRef.current),
\* timeoutRef.current = setTimeout(...), setCountdown(6)
afterAwait(S) ==
  IF S = {} THEN UNCHANGED <<timers, timeoutRef, countdown>>
  ELSE
    /\ timers' = [k \in LabRuns |->
                    IF k = LastOf(S) THEN "armed"
                    ELSE IF k \in S THEN "cleared"
                    ELSE IF k = timeoutRef /\ timers[k] = "armed" THEN "cleared"
                    ELSE timers[k]]
    /\ timeoutRef' = LastOf(S)
    /\ countdown' = 6

\* Run is pressed (or Ctrl+Enter): run() up to its await and, when the
\* executor is ready, beyond it
lab_run ==
  /\ ~running
  /\ lab_runs < MaxLabRuns
  /\ LET k == lab_runs + 1
         e == execRef
         x == executors[e]
     IN /\ lab_runs' = k
        /\ lines' = <<>>
        /\ running' = TRUE
        /\ status' = "Running"
        /\ closure' = [closure EXCEPT ![k] = running]
        /\ IF x.worker = "null" THEN
             /\ executors' = [executors EXCEPT
                                ![e] = [x EXCEPT !.worker = "w",
                                                 !.listeners = @ \cup {ReadyOf(k)}]]
             /\ workers' = [workers EXCEPT
                              ![e] = [pc |-> "created",
                                      inbox |-> <<LabMsg("init", 0, "")>>,
                                      run |-> 0]]
             /\ afterAwait({})
           ELSE IF ~x.ready THEN
             /\ executors' = [executors EXCEPT ![e].listeners = @ \cup {ReadyOf(k)}]
             /\ afterAwait({})
             /\ UNCHANGED workers
           ELSE
             /\ workers' = [workers EXCEPT
                              ![e].inbox = Append(@, LabMsg("run", k, ""))]
             /\ afterAwait({k})
             /\ UNCHANGED executors
  /\ UNCHANGED <<execRef, outbox, lab_writes, stoppedRuns, finalSeen>>
  /\ UNCHANGED <<runnerVars, jsVars, sbVars, pyVars, wkVars, histVars, execVars, srvVars,
                 appVars>>

\* Stop is pressed
lab_stop ==
  /\ running
  /\ execRef' = execRef + 1
  /\ running' = FALSE
  /\ status' = "Stopped"
  /\ lines' = Append(lines, [type |-> "err", run |-> 0])
  /\ timers' = [k \in LabRuns |->
                  IF k = timeoutRef /\ timers[k] = "armed" THEN "cleared" ELSE timers[k]]
  /\ countdown' = 0
  /\ stoppedRuns' = stoppedRuns \cup {[run |-> lab_runs, exec |-> execRef]}
  /\ UNCHANGED <<timeoutRef, executors, workers, outbox, closure, lab_runs, lab_writes,
                 finalSeen>>
  /\ UNCHANGED <<runnerVars, jsVars, sbVars, pyVars, wkVars, histVars, execVars, srvVars,
                 appVars>>

\* worker.onmessage of executor e for one message event: the token is the
\* executor's own, ready is kept, the listeners are called, and the run()
\* calls that awaited ready go on
lab_onmessage(e) ==
  /\ outbox[e] # <<>>
  /\ outbox' = [outbox EXCEPT ![e] = Tail(@)]
  /\ LET msg == Head(outbox[e])
         x == executors[e]
         resolved == IF msg.type = "ready"
                       THEN {k \in LabRuns : ReadyOf(k) \in x.listeners}
                       ELSE {}
     IN /\ executors' = [executors EXCEPT
                           ![e] = [x EXCEPT !.ready = (@ \/ msg.type = "ready"),
                                            !.listeners = @ \ {ReadyOf(k) : k \in resolved}]]
        /\ IF Panel \in x.listeners THEN labHandler(msg)
           ELSE UNCHANGED <<running, status, lines>>
        /\ workers' = [workers EXCEPT ![e].inbox = @ \o LabRunMsgs(resolved, 1)]
        /\ afterAwait(resolved)
        /\ finalSeen' = IF msg.type \in {"result", "error"} /\ msg.run # 0
                          THEN finalSeen \cup {msg.run} ELSE finalSeen
  /\ UNCHANGED <<execRef, closure, lab_runs, lab_writes, stoppedRuns>>
  /\ UNCHANGED <<runnerVars, jsVars, sbVars, pyVars, wkVars, histVars, execVars, srvVars,
                 appVars>>

\* the hard timeout of run k fires: the callback reads the running of the
\* render in which its run() was created
lab_timeout(k) ==
  /\ timers[k] = "armed"
  /\ timers' = [timers EXCEPT ![k] = "fired"]
  /\ IF closure[k]
       THEN /\ running' = FALSE
            /\ status' = "Timeout"
            /\ lines' = Append(lines, [type |-> "err", run |-> 0])
       ELSE UNCHANGED <<running, status, lines>>
  /\ UNCHANGED <<execRef, timeoutRef, countdown, executors, workers, outbox, closure,
                 lab_runs, lab_writes, stoppedRuns, finalSeen>>
  /\ UNCHANGED <<runnerVars, jsVars, sbVars, pyVars, wkVars, histVars, execVars, srvVars,
                 appVars>>

\* the countdown effect: one second has passed
lab_countdown ==
  /\ running
  /\ countdown > 0
  /\ countdown' = countdown - 1
  /\ UNCHANGED <<running, status, lines, execRef, timeoutRef, executors, workers, outbox,
                 timers, closure, lab_runs, lab_writes, stoppedRuns, finalSeen>>
  /\ UNCHANGED <<runnerVars, jsVars, sbVars, pyVars, wkVars, histVars, execVars, srvVars,
                 appVars>>

(* --------------------- the Python Lab: the workers --------------------- *)

\* what the worker of executor e does: its state and what it posts
labWorker(e, w, posted) ==
  /\ workers' = [workers EXCEPT ![e] = w]
  /\ outbox' = [outbox EXCEPT ![e] = @ \o posted]
  /\ UNCHANGED <<running, status, lines, execRef, timeoutRef, countdown, executors,
                 timers, closure, lab_runs, stoppedRuns, finalSeen>>
  /\ UNCHANGED <<runnerVars, jsVars, sbVars, pyVars, wkVars, histVars, execVars, srvVars,
                 appVars>>

\* self.onmessage, 'init'
lw_init(e) ==
  LET w == workers[e] IN
  /\ w.pc = "created"
  /\ labWorker(e, [w EXCEPT !.pc = "loading", !.inbox = Tail(@)], <<>>)
  /\ UNCHANGED lab_writes

\* loadPyodideIfNeeded resolved: 'ready'
lw_ready(e) ==
  LET w == workers[e] IN
  /\ w.pc = "loading"
  /\ labWorker(e, [w EXCEPT !.pc = "idle"], <<LabMsg("ready", 0, "")>>)
  /\ UNCHANGED lab_writes

\* loadPyodideIfNeeded threw: 'error' with runId null
lw_loadFailed(e) ==
  LET w == workers[e] IN
  /\ w.pc = "loading"
  /\ labWorker(e, [w EXCEPT !.pc = "failed"], <<LabMsg("error", 0, "")>>)
  /\ UNCHANGED lab_writes

\* self.onmessage, 'run': 'start', the redirection, and the code is called
lw_run(e) ==
  LET w == workers[e] IN
  /\ w.pc = "idle"
  /\ w.run = 0
  /\ w.inbox # <<>>
  /\ labWorker(e, [w EXCEPT !.run = Head(w.inbox).run, !.inbox = Tail(@)],
               <<LabMsg("start", Head(w.inbox).run, "")>>)
  /\ UNCHANGED lab_writes

\* the code writes to sys.stdout / sys.stderr
lw_write(e, kind) ==
  LET w == workers[e] IN
  /\ w.run # 0
  /\ lab_writes < MaxLabWrites
  /\ lab_writes' = lab_writes + 1
  /\ labWorker(e, w, <<LabMsg(kind, w.run, "")>>)

\* runPythonAsync(code) resolved with value v
lw_result(e, v) ==
  LET w == workers[e] IN
  /\ w.run # 0
  /\ labWorker(e, [w EXCEPT !.run = 0], <<LabMsg("result", w.run, v)>>)
  /\ UNCHANGED lab_writes

\* runPythonAsync(code) rejected
lw_raise(e) ==
  LET w == workers[e] IN
  /\ w.run # 0
  /\ labWorker(e, [w EXCEPT !.run = 0], <<LabMsg("error", w.run, "")>>)
  /\ UNCHANGED lab_writes

LabNext ==
  \/ lab_run
  \/ lab_stop
  \/ \E e \in Execs : lab_onmessage(e)
  \/ \E k \in LabRuns : lab_timeout(k)
  \/ lab_countdown
  \/ \E e \in Execs : lw_init(e)
  \/ \E e \in Execs : lw_ready(e)
  \/ \E e \in Execs : lw_loadFailed(e)
  \/ \E e \in Execs : lw_run(e)
  \/ \E e \in Execs, kind \in {"stdout", "stderr"} : lw_write(e, kind)
  \/ \E e \in Execs, v \in LabValues : lw_result(e, v)
  \/ \E e \in Execs : lw_raise(e)

LabSpec == Init /\ [][LabNext]_vars

(* ----------------------- App and CompilerAnimation --------------------- *)

\* Math.min and Math.max
Min(a, b) == IF a < b THEN a ELSE b
Max(a, b) == IF a > b THEN a ELSE b

\* the animation control effect of CompilerAnimation, for the isCompiling
\* it is rendered with and its own phase, stage and pending completion
\* timeouts; the counter of pending timeouts stops at MaxCompletions
animationControl(compiling, a) ==
  IF compiling /\ a.phase = "idle" THEN
    [a EXCEPT !.phase = "starting", !.stage = 0]
  ELSE IF ~compiling /\ a.phase # "idle" THEN
    [a EXCEPT !.phase = "completing", !.completions = Min(@ + 1, MaxCompletions)]
  ELSE a

\* CompilerAnimation as it is before a render
Animation ==
  [phase |-> animationPhase, stage |-> animStage, completions |-> completions]

SetAnimation(a) ==
  /\ animationPhase' = a.phase
  /\ animStage' = a.stage
  /\ completions' = a.completions

\* App has set its state: when something changed it renders, CompilerAnimation
\* gets a new onCompilationComplete and its control effect runs
appRender ==
  IF <<isCompiling, compilationComplete, currentStage>>'
       = <<isCompiling, compilationComplete, currentStage>>
    THEN UNCHANGED <<animationPhase, animStage, completions>>
    ELSE SetAnimation(animationControl(isCompiling', Animation))

\* handleCompile, with code in the editor
handleCompile ==
  /\ intervals < MaxIntervals
  /\ isCompiling' = TRUE
  /\ compilationComplete' = FALSE
  /\ currentStage' = 0
  /\ intervals' = intervals + 1
  /\ resetIdle' = FALSE

\* handleReset
handleReset ==
  /\ isCompiling' = FALSE
  /\ compilationComplete' = FALSE
  /\ currentStage' = 0
  /\ resetIdle' = (resetIdle \/ isCompiling)
  /\ UNCHANGED intervals

\* the rest of the state when App or CompilerAnimation takes a step
appFrame ==
  UNCHANGED <<runnerVars, jsVars, sbVars, pyVars, wkVars, histVars, execVars, srvVars,
              labVars>>

\* the Compile button
app_compile ==
  /\ ~isCompiling
  /\ handleCompile
  /\ appRender
  /\ appFrame

\* the Reset button
app_reset ==
  /\ isCompiling \/ compilationComplete
  /\ handleReset
  /\ appRender
  /\ appFrame

\* onControl('restart'): handleReset(); handleCompile(); the state is what
\* the later calls set
app_restart ==
  /\ handleCompile
  /\ appRender
  /\ appFrame

\* onControl('next')
app_next ==
  /\ currentStage' = Min(currentStage + 1, 6)
  /\ UNCHANGED <<isCompiling, compilationComplete, intervals, resetIdle>>
  /\ appRender
  /\ appFrame

\* onControl('prev')
app_prev ==
  /\ currentStage' = Max(currentStage - 1, 0)
  /\ UNCHANGED <<isCompiling, compilationComplete, intervals, resetIdle>>
  /\ appRender
  /\ appFrame

\* a stage of the timeline is clicked; its buttons are disabled while
\* isCompiling
app_stageClick(stageIndex) ==
  /\ ~isCompiling
  /\ currentStage' = stageIndex
  /\ UNCHANGED <<isCompiling, compilationComplete, intervals, resetIdle>>
  /\ appRender
  /\ appFrame

\* handleCodeChange
app_codeChange ==
  /\ compilationComplete' = FALSE
  /\ UNCHANGED <<isCompiling, currentStage, intervals, resetIdle>>
  /\ appRender
  /\ appFrame

\* a stage interval of handleCompile ticks
app_tick ==
  /\ intervals > 0
  /\ LET nextStage == currentStage + 1 IN
     /\ currentStage' = nextStage
     /\ IF nextStage >= NumStages - 1
          THEN /\ intervals' = intervals - 1
               /\ isCompiling' = FALSE
               /\ compilationComplete' = TRUE
          ELSE UNCHANGED <<intervals, isCompiling, compilationComplete>>
  /\ UNCHANGED resetIdle
  /\ appRender
  /\ appFrame

\* the timer of the stage progression effect of CompilerAnimation; the
\* control effect runs again when the phase has changed
anim_step ==
  /\ animationPhase \in {"starting", "running"}
  /\ LET a == IF animStage < NumAnimStages - 1
                THEN [Animation EXCEPT !.stage = @ + 1, !.phase = "running"]
                ELSE [Animation EXCEPT !.phase = "completing"]
     IN SetAnimation(IF a.phase # animationPhase
                       THEN animationControl(isCompiling, a) ELSE a)
  /\ UNCHANGED <<isCompiling, compilationComplete, currentStage, intervals, resetIdle>>
  /\ appFrame

\* a completion timeout of the control effect fires: the phase is idle
\* again and onCompilationComplete, which is handleCompilationComplete, is
\* called
anim_complete ==
  /\ completions > 0
  /\ isCompiling' = FALSE
  /\ compilationComplete' = TRUE
  /\ currentStage' = NumStages - 1
  /\ SetAnimation(animationControl(FALSE, [Animation EXCEPT !.phase = "idle",
                                                            !.completions = @ - 1]))
  /\ UNCHANGED <<intervals, resetIdle>>
  /\ appFrame

AppNext ==
  \/ app_compile
  \/ app_reset
  \/ app_restart
  \/ app_next
  \/ app_prev
  \/ \E stageIndex \in 0..(NumStages - 1) : app_stageClick(stageIndex)
  \/ app_codeChange
  \/ app_tick
  \/ anim_step
  \/ anim_complete

AppSpec == Init /\ [][AppNext]_vars

(* --------------------- the snippet server: requests -------------------- *)

\* POST /api/snippets with a body of Len(code.s) + rest bytes: express.json
\* answers 413 for a body over its limit, otherwise the handler runs
postSnippet(code, language0, meta0, rest) ==
  /\ IF Len(code.s) + rest > MaxBodyBytes THEN
       /\ res' = Response("POST", code, TRUE, "", 413, {})
       /\ UNCHANGED <<all, issued, nIds, clock>>
     ELSE
       LET c == IF code.t = "undefined" THEN [t |-> "string", s |-> ""] ELSE code
           l == Default(language0, "python")
           m == Default(meta0, "{}")
       IN IF invalid(c) THEN
            /\ res' = Response("POST", code, FALSE, "", 400, {})
            /\ UNCHANGED <<all, issued, nIds, clock>>
          ELSE
            \E now \in {clock, clock + 1} :
              LET id == NanoId(nIds + 1)
                  snip == [id |-> id, code |-> c.s, language |-> l, meta |-> m,
                           createdAt |-> now]
              IN /\ nIds < MaxPosts
                 /\ nIds' = nIds + 1
                 /\ clock' = now
                 /\ all' = Put(all, id, snip)
                 /\ issued' = Put(issued, id, [code |-> c.s, language |-> l, meta |-> m])
                 /\ res' = Response("POST", code, FALSE, id, 200, {})
  /\ UNCHANGED <<runnerVars, jsVars, sbVars, pyVars, wkVars, histVars, execVars,
                 labVars, appVars>>

\* GET /api/snippets/:id
getSnippet(id) ==
  /\ res' = IF ~Truthy(all, id) THEN Response("GET", NoCode, FALSE, id, 404, {})
            ELSE Response("GET", NoCode, FALSE, id, 200,
                          IF id \in DOMAIN all THEN {all[id]} ELSE {})
  /\ UNCHANGED <<all, issued, nIds, clock>>
  /\ UNCHANGED <<runnerVars, jsVars, sbVars, pyVars, wkVars, histVars, execVars,
                 labVars, appVars>>

ServerNext ==
  \/ \E code \in CodeValues, o \in OtherFields, rest \in RestBytes :
        postSnippet(code, o.language, o.meta, rest)
  \/ \E id \in RequestedIds : getSnippet(id)

ServerSpec == Init /\ [][ServerNext]_vars

(* ------------------------ vocabulary of the claims --------------------- *)

Supported == IsJs(language) \/ IsPy(language)

\* how many delivered events have a type in T
NumOf(T) == Cardinality({i \in 1..Len(events) : events[i].type \in T})

HasType(t) == \E i \in 1..Len(events) : events[i].type = t

HasTerminal == \E i \in 1..Len(events) : events[i].type \in Terminal

IsTruncationWarning(e) == e.type = "log" /\ e.level = "warn" /\ e.text = Truncated

NumWarnings == Cardinality({i \in 1..Len(events) : IsTruncationWarning(events[i])})

\* bytes of the texts of the stdout and stderr events among the first n events
RECURSIVE OutputBytes(_)
OutputBytes(n) ==
  IF n = 0 THEN 0
  ELSE OutputBytes(n - 1)
       + (IF events[n].type \in {"stdout", "stderr"} THEN Bytes(events[n].text) ELSE 0)

(* ------------------------------- claims -------------------------------- *)

\* C1: a runCode invocation with a supported language delivers at most one
\* event whose type is done, error or timeout.
C1_AtMostOneTerminal ==
  Supported => NumOf(Terminal) <= 1

\* C2: with a supported language the terminal event is the last event of
\* the run: no event of any type is delivered after a done, error or timeout.
C2_TerminalIsLast ==
  Supported => \A i \in 1..Len(events) : events[i].type \in Terminal => i = Len(events)

C4_ExactlyOneInitFirst ==
  called /\ Supported => NumOf({"init"}) = 1 /\ events[1].type = "init"

\* C5: after a stop() called before any terminal event was delivered the
\* callback is never invoked again.
C5_NoEventAfterStop ==
  stopLen >= 0 => Len(events) = stopLen

\* a JavaScript run stopped before any terminal event whose sandbox had
\* already posted its last message: every message was dispatched after all
C5_Witness ==
  /\ stopLen >= 0
  /\ IsJs(language)
  /\ sb_pc \in {"returned", "threw"}
  /\ sb_logs > 0
  /\ winQ = <<>>

\* C6: a Python run whose code never returns gets a timeout from the host
\* timer, followed by disposal of the executor, unless stop() is called.
C6_BlockedRunTimesOut ==
  (IsPy(language) /\ wk_pc = "running")
    ~> (wk_pc = "ended" \/ stopCalled \/ (HasType("timeout") /\ worker = "null"))

\* C7: when the runJavaScript watchdog expires before a done or error was
\* handled, exactly one timeout is emitted, it is the last event, the
\* iframe is removed and the listener detached.
C7_WatchdogTimeout ==
  (js_timer = "fired"
     /\ \A i \in 1..Len(js_events) : js_events[i].type \notin {"done", "error"})
  => /\ Cardinality({i \in 1..Len(js_events) : js_events[i].type = "timeout"}) = 1
     /\ js_events[Len(js_events)].type = "timeout"
     /\ NumOf({"timeout"}) = 1
     /\ events[Len(events)].type = "timeout"
     /\ iframe = "removed"
     /\ ~js_listening

\* the watchdog expired while the sandbox's log and done messages were
\* still queued; they have all been dispatched since
C7_Witness ==
  /\ js_timer = "fired"
  /\ HasType("timeout")
  /\ ~stopCalled
  /\ sb_pc \in {"returned", "threw"}
  /\ sb_logs > 0
  /\ winQ = <<>>

\* C8: exactly one truncation warning is delivered once the budget is
\* exceeded, never two or more, also on the JavaScript path.
C8_ExactlyOneTruncationWarning ==
  /\ NumWarnings <= 1
  /\ (truncatedNotified \/ js_truncatedNotified) => NumWarnings = 1

\* C9: once the truncation warning has fired no later stdout or stderr
\* event is delivered.
C9_NoOutputAfterTruncation ==
  \A i, j \in 1..Len(events) :
    (i < j /\ IsTruncationWarning(events[i])) => events[j].type \notin {"stdout", "stderr"}

\* C10: the bytes of the texts of all stdout and stderr events delivered so
\* far never exceed maxLogBytes; one counter accounts for both streams.
C10_OutputWithinBudget ==
  /\ OutputBytes(Len(events)) <= MaxLogBytes
  /\ OutputBytes(Len(events)) = totalLogBytes

C10_Witness ==
  /\ IsPy(language)
  /\ truncatedNotified
  /\ HasType("stdout")
  /\ HasType("stderr")
  /\ OutputBytes(Len(events)) > 0

\* C11: exceeding the output budget never prevents the terminal event.  In
\* a run that was not stopped and whose truncation warning has fired: once
\* the watchdog has expired a timeout has been delivered; once the sandbox
\* has returned (thrown) and all its messages are dispatched, done (error)
\* has been delivered unless the watchdog expired first; a Python run has
\* its done, and the worker's result or error once that is dispatched.
C11_TerminalDespiteTruncation ==
  (~stopCalled /\ (truncatedNotified \/ js_truncatedNotified)) =>
    /\ js_timer = "fired" => HasType("timeout")
    /\ (sb_pc = "returned" /\ winQ = <<>> /\ js_timer # "fired") => HasType("done")
    /\ (sb_pc = "threw" /\ winQ = <<>> /\ js_timer # "fired") => HasType("error")
    /\ (sb_pc \in {"returned", "threw"} /\ winQ = <<>>) =>
         events[Len(events)].type \in Terminal
    /\ IsPy(language) => HasType("done")
    /\ (wk_pc = "ended" /\ pyQ = <<>>) => (HasType("result") \/ HasType("error"))

\* both budgets were exceeded, then the submitted code threw and its error
\* message was dispatched
C11_Witness ==
  /\ ~stopCalled
  /\ truncatedNotified
  /\ js_truncatedNotified
  /\ sb_pc = "threw"
  /\ winQ = <<>>
  /\ events[Len(events)].type = "error"

\* no timer armed, no iframe attached, no listener on the window, no worker
NothingAlive ==
  /\ timer # "armed"
  /\ js_timer # "armed"
  /\ iframe # "attached"
  /\ ~js_listening
  /\ worker = "null"
  /\ wk_pc \in {"none", "terminated"}

\* C12: stop() is idempotent and safe at any time.  A call of stop(), the
\* first or a later one, before or after a terminal event, delivers no
\* event; from the first call on no timer is armed and no iframe or worker
\* is alive; a call after the first changes nothing at all.
C12_StopIsIdempotent ==
  /\ [][stop => (events' = events /\ js_events' = js_events)]_vars
  /\ [][(stop /\ stopCalled) => UNCHANGED <<runnerVars, jsVars, sbVars, pyVars, wkVars>>]_vars
  /\ [](stopCalled => NothingAlive)

\* stop() was called for the first time after the run had delivered its
\* terminal event
C12_Witness ==
  /\ stopCalled
  /\ stopLen = -1
  /\ Supported
  /\ HasTerminal
  /\ NothingAlive

C15_ForeignMessagesIgnored ==
  [][\A m \in ForeignMessages : foreignMessage(m) => UNCHANGED <<runnerVars, jsVars>>]_vars

\* a foreign message reached handleMsg during a run that logged and went
\* on to its done
C15_Witness ==
  /\ noise > 0
  /\ js_events[Len(js_events)].type = "done"
  /\ sb_logs > 0

\* the first position of js_events that holds an event of type t, 0 if none
FirstJs(t) ==
  IF \E i \in 1..Len(js_events) : js_events[i].type = t
    THEN CHOOSE i \in 1..Len(js_events) :
           /\ js_events[i].type = t
           /\ \A j \in 1..(i - 1) : js_events[j].type # t
    ELSE 0

NumJs(T) == Cardinality({i \in 1..Len(js_events) : js_events[i].type \in T})

\* C18: the events of one runJavaScript run come in the order start, log*,
\* then one of done and error: at most one start; every log after the start
\* and before the done or error; done and error never both; and exactly one
\* of them once the sandbox has finished and all its messages are
\* dispatched, unless the watchdog expired or stop() was called first.
C18_JsEventOrder ==
  /\ NumJs({"start"}) <= 1
  /\ NumJs({"done", "error"}) <= 1
  /\ \A i \in 1..Len(js_events) :
        /\ js_events[i].type = "log" => (FirstJs("start") > 0 /\ FirstJs("start") < i)
        /\ js_events[i].type \in {"done", "error"} =>
              (i = Len(js_events) /\ FirstJs("start") > 0 /\ FirstJs("start") < i)
  /\ (sb_pc \in {"returned", "threw"} /\ winQ = <<>> /\ ~stopCalled /\ js_timer # "fired")
       => NumJs({"done", "error"}) = 1

\* start, three logs, done
C18_Witness ==
  /\ Len(js_events) = 6
  /\ js_events[2].type = "start"
  /\ js_events[3].type = "log" /\ js_events[4].type = "log" /\ js_events[5].type = "log"
  /\ js_events[6].type = "done"
  /\ noise > 0

\* C19: when the submitted JavaScript throws, the run delivers an error
\* event that carries the thrown message, both from runJavaScript and from
\* runCode, unless the watchdog expired or stop() was called before the
\* harness's message was dispatched; an error event is the last event of
\* the run: no done and no timeout follows it.
C19_ThrowGivesError ==
  IsJs(language) =>
    /\ \A i \in 1..Len(js_events) :
          js_events[i].type = "error" =>
            (i = Len(js_events) /\ sb_pc = "threw" /\ js_events[i].text \in Thrown)
    /\ \A i \in 1..Len(events) :
          events[i].type = "error" =>
            (i = Len(events) /\ sb_pc = "threw" /\ events[i].text \in Thrown)
    /\ (sb_pc = "threw" /\ winQ = <<>> /\ ~stopCalled /\ js_timer # "fired")
         => (HasType("error") /\ NumJs({"error"}) = 1)

\* the code logged and threw 'boom'; all its messages and a foreign one
\* have been dispatched and the error is the last event
C19_Witness ==
  /\ sb_pc = "threw"
  /\ sb_logs = MaxLogs
  /\ winQ = <<>>
  /\ noise > 0
  /\ events[Len(events)] = Ev("error", "boom", "")
  /\ HasType("stdout")

\* C14: the PythonExecutor handler forwards a worker message only if it
\* carries the executor's token.  For a message with another token or with
\* no token no listener is invoked (nothing is added to what listeners have
\* seen, no run() continuation resumes) and ready is not changed.
C14_OnlyTokenMessagesForwarded ==
  [][(px_onmessage /\ Head(pyQ).token # PyToken)
       => UNCHANGED <<seen, ready, readyBy, listeners, wk_inbox>>]_vars

\* C16: after dispose() and a further run() no message of the earlier
\* worker reaches a listener or sets ready: every message handed to a
\* listener was posted by the worker held at that moment, and ready was set
\* by a message of the worker now held.
C16_NoStaleDelivery ==
  /\ \A s \in seen : s.from = s.at
  /\ ready => readyBy = gen

\* listeners have received messages of a first worker and, after dispose()
\* and run(), of a second one that is ready
C16_Witness ==
  /\ gen = 2
  /\ ready
  /\ \E s \in seen : s.at = 1
  /\ \E s \in seen : s.at = 2

\* C17: every stdout and stderr message a worker posts carries the runId of
\* the run whose code performed the write, also when the handlers of two
\* run messages are in progress at once.
C17_WritesTaggedWithOwnRun ==
  \A m \in wk_posted : m.type \in {"stdout", "stderr"} => m.runId = m.by

\* the result and error messages posted with the runId of run k
Finals(k) == {m \in wk_posted : m.type \in {"result", "error"} /\ m.runId = k}

\* C20: every start is followed by exactly one result or error for that
\* run: never two, and one once the handler of the run has finished, also
\* when it finished because the redirection could not be installed.
C20_OneFinalPerStart ==
  \A k \in 1..MaxRuns :
    /\ Cardinality(Finals(k)) <= 1
    /\ wk_task[k] = "finished" =>
          /\ \E m \in wk_posted : m.type = "start" /\ m.runId = k
          /\ Cardinality(Finals(k)) = 1

\* the 'run' messages waiting in the inbox of the worker
QueuedRuns == {i \in 1..Len(wk_inbox) : wk_inbox[i].type = "run"}

\* C21: run() never posts a run message before a ready carrying the token
\* was received from the worker now held: while a worker is held, a run
\* message is in its inbox or in progress only if ready was set by that
\* worker.  A run() called before that waits on a one-shot listener and
\* posts nothing; the dispatch of ready removes every one-shot listener.
C21_RunAfterReady ==
  /\ [](worker # "null" /\ (QueuedRuns # {} \/ \E k \in 1..MaxRuns : wk_task[k] \notin {"none", "killed"})
          => ready /\ readyBy = gen)
  /\ [](ready => \A l \in listeners : l[1] # "once")
  /\ [][(px_run /\ ~ready') =>
          (Once(runs') \in listeners' /\ \A i \in 1..Len(wk_inbox') : wk_inbox'[i].type # "run")]_vars
  /\ [][(px_run /\ ready') => wk_inbox' = Append(wk_inbox, RunMsg(runs'))]_vars

\* a second worker, created by a run() after dispose(), has sent its ready
\* and the waiting run() has posted its message
C21_Witness ==
  /\ gen = 2
  /\ readyBy = 2
  /\ wk_inbox = <<RunMsg(2)>>
  /\ \A l \in listeners : l[1] # "once"

\* C22: for every log event runJavaScript hands to runCode's adapter,
\* runCode delivers a stdout event and then a log event with the same text
\* and level, and nothing else; so a JavaScript run has delivered as many
\* stdout events as log events.
C22_LogBecomesStdoutAndLog ==
  /\ [][(Len(js_events') = Len(js_events) + 1 /\ js_events'[Len(js_events')].type = "log")
          => LET e == js_events'[Len(js_events')]
             IN events' = events \o <<Ev("stdout", e.text, e.level), Ev("log", e.text, e.level)>>]_vars
  /\ [](IsJs(language) => NumOf({"stdout"}) = NumOf({"log"}))

\* the run finished by itself and its last event has been delivered
FinishedByItself ==
  \/ /\ IsJs(language)
     /\ Len(js_events) > 0
     /\ js_events[Len(js_events)].type \in {"done", "error"}
  \/ /\ IsPy(language)
     /\ HasType("done")
     /\ HasType("result") \/ HasType("error")

\* C23: the isolation context is torn down on natural completion: once a
\* run has finished by itself (JavaScript: done or error; Python: result or
\* error, with done) no iframe is attached, no worker is alive and no host
\* timer is armed.
C23_TornDownOnCompletion ==
  FinishedByItself =>
    /\ iframe # "attached"
    /\ worker = "null"
    /\ wk_pc \in {"none", "terminated"}
    /\ timer # "armed"
    /\ js_timer # "armed"

\* the worker constructed last has not been constructed or was terminated
NoLiveWorker == wk_pc \in {"none", "terminated"}

\* C24: a PythonExecutor has at most one live worker at any time, over any
\* sequence of run(), onMessage() and dispose(): a worker is constructed
\* only when none is held and the one constructed before is not alive;
\* dispose() terminates the held worker and clears the reference; no worker
\* is alive without being held.
C24_AtMostOneWorker ==
  /\ [](worker = "null" => NoLiveWorker)
  /\ [][gen' # gen =>
          (gen' = gen + 1 /\ worker = "null" /\ NoLiveWorker /\ worker' = "w")]_vars
  /\ [][(px_dispose /\ worker # "null") => (wk_pc' = "terminated" /\ worker' = "null")]_vars

\* run() was called twice on one worker, which ran both; dispose() then
\* terminated it
C24_Witness ==
  /\ gen = 1
  /\ runs = 2
  /\ wk_task[1] = "killed" /\ wk_task[2] = "killed"
  /\ worker = "null"
  /\ wk_pc = "terminated"

\* C25: every event one runCode invocation delivers carries the runId
\* generated at the start of that invocation and the invocation's language,
\* whatever runId the worker attached to its own messages.
C25_OneRunIdAndLanguage ==
  /\ called => tags = {[runId |-> RunId(language), language |-> language]}
  /\ ~called => tags = {}

\* a Python run delivered start, output and result, which the worker had
\* posted with the runId of the executor's run message
C25_Witness ==
  /\ IsPy(language)
  /\ HasType("start")
  /\ HasType("stdout")
  /\ HasType("result")
  /\ pyQ = <<>>
  /\ PyRunId # RunId(language)

\* the code of a request is present and not a string, or a string longer
\* than the maximum
Rejectable(code) ==
  \/ code.t \notin {"string", "undefined"}
  \/ code.t = "string" /\ Len(code.s) > MaxCodeLength

\* the request stored a snippet with this code under a new id
Accepted(code) ==
  /\ res'.status = 200
  /\ nIds' = nIds + 1
  /\ res'.id \notin DOMAIN all
  /\ res'.id \in DOMAIN all'
  /\ all'[res'.id].code = code.s

\* C26 (as stated): a POST whose code is not a string or is longer than the
\* maximum is answered with 400 and leaves the store unchanged, no id
\* allocated; a code of exactly the maximal length is accepted.
C26_InvalidCodeRejected ==
  [][res'.op = "POST" =>
       /\ Rejectable(res'.code) => (res'.status = 400 /\ UNCHANGED <<all, issued, nIds>>)
       /\ (res'.code.t = "string" /\ Len(res'.code.s) = MaxCodeLength /\ nIds < MaxPosts)
            => Accepted(res'.code)]_vars

\* C26 (amended): a body over the parser's limit is answered with 413; for
\* a body within the limit, a code that is not a string or is longer than
\* the maximum is answered with 400 and a code of exactly the maximal
\* length is accepted; a 413 and a 400 leave the store unchanged, no id
\* allocated.
C26_InvalidCodeRejectedWithinLimit ==
  [][res'.op = "POST" =>
       IF res'.over
         THEN res'.status = 413 /\ UNCHANGED <<all, issued, nIds>>
         ELSE /\ Rejectable(res'.code) => (res'.status = 400 /\ UNCHANGED <<all, issued, nIds>>)
              /\ (res'.code.t = "string" /\ Len(res'.code.s) = MaxCodeLength /\ nIds < MaxPosts)
                   => Accepted(res'.code)]_vars

\* a code of exactly the maximal length is stored and a POST with a code
\* one character longer has just been answered with 400
C26_Witness ==
  /\ res.op = "POST"
  /\ res.status = 400
  /\ res.code = [t |-> "string", s |-> Rep(MaxCodeLength + 1)]
  /\ \E id \in DOMAIN all : Len(all[id].code) = MaxCodeLength

\* C27: GET /api/snippets/:id returns the code, language and meta stored by
\* the POST that returned the id, and 404 for every id no POST has
\* returned; a later POST never alters or removes an earlier snippet.
C27_GetReturnsWhatWasPosted ==
  /\ [][res'.op = "GET" =>
          LET id == res'.id IN
          IF id \in DOMAIN issued
            THEN /\ res'.status = 200
                 /\ \E s \in res'.body :
                       /\ res'.body = {s}
                       /\ s.id = id
                       /\ [code |-> s.code, language |-> s.language, meta |-> s.meta] = issued[id]
            ELSE res'.status = 404]_vars
  /\ [][\A id \in DOMAIN issued :
          id \in DOMAIN issued' /\ issued'[id] = issued[id]
          /\ id \in DOMAIN all' /\ all'[id] = all[id]]_vars

\* C28: runCode delivers init inside the call and before any isolation
\* context exists: when the call returns the first event is init, and at
\* the moment the callback received it no iframe had been created and no
\* worker constructed.
C28_InitBeforeContext ==
  called =>
    /\ Len(events) > 0 /\ events[1].type = "init"
    /\ initCtx = [iframe |-> "none", worker |-> "null"]

\* runCode has just returned from a Python call: init is the only event and
\* the worker has been constructed since
C28_Witness ==
  /\ IsPy(language)
  /\ events = <<Ev("init", "", "")>>
  /\ worker = "w"
  /\ wk_pc = "created"

\* C29: when stop() is called on a Python run before the worker's ready was
\* received (so before done or any other terminal event), the run()
\* continuation never resumes: its one-shot listener is gone, no run message
\* is ever posted to a worker, no code is evaluated, and neither start nor
\* done is ever delivered.
C29_StopWhileLoading ==
  (IsPy(language) /\ stopLen >= 0) =>
    /\ "oneshot" \notin listeners
    /\ \A i \in 1..Len(wk_inbox) : wk_inbox[i].type # "run"
    /\ wk_pc \notin {"running", "ended"}
    /\ ~HasType("start")
    /\ ~HasType("done")
    /\ ~finished

\* stop() was called after the worker had taken the init message and begun
\* loading; the worker is terminated and init is the only event
C29_Witness ==
  /\ IsPy(language)
  /\ stopLen = 1
  /\ currentToken = PyToken
  /\ wk_pc = "terminated"
  /\ events = <<Ev("init", "", "")>>
  /\ timer = "cleared"

\* the run messages whose token is missing or is not the token of the init
BadRuns == {k \in 1..MaxRuns : ClientToken(k) # PyToken}

\* C30: the worker drops a run message whose token is missing or differs
\* from the token of the init: it evaluates no code and posts no message in
\* response, also when pyodide has not finished or has failed loading.
C30_BadTokenRunDropped ==
  \A k \in BadRuns :
    /\ wk_task[k] \notin {"redirecting", "evaluating"}
    /\ \A m \in wk_posted : m.by # k

\* the start message of run k has been posted
Started(k) == \E m \in wk_posted : m.type = "start" /\ m.runId = k

\* C31: the worker posts the start of a run only after the script that
\* redirects sys.stdout and sys.stderr has run for that run, and before the
\* submitted code is evaluated: no run has its start posted while its
\* redirection is still to be installed, and no code is evaluated and no
\* result or error is posted for a run that has not been started.
C31_StartAfterRedirection ==
  \A k \in 1..MaxRuns :
    /\ Started(k) => wk_task[k] \notin {"none", "redirecting"}
    /\ wk_task[k] = "evaluating" => Started(k)
    /\ (\E m \in wk_posted : m.by = k /\ m.type # "start") => Started(k)

\* the callback has thrown for an event of the run
HasThrown == \E i \in 1..Len(events) : events[i].type \in throwsOn

\* C32: an exception of the consumer's onEvent leaves neither runCode nor a
\* message handler, promise callback or timer of the run, and the run goes
\* on as it would have: every event runJavaScript reports is passed on (the
\* copy of a log line, the terminal event), a run that has ended is torn
\* down, the python watchdog disposes of the executor after its timeout,
\* the end of the python run is reported with done, and an unsupported
\* language gets init, error and done.
C32_CallbackExceptionsContained ==
  /\ ~escaped
  /\ called /\ IsJs(language) =>
       /\ NumOf({"log"}) = NumJs({"log"}) + (IF truncatedNotified THEN 1 ELSE 0)
       /\ \A t \in Terminal \cup {"start"} : NumOf({t}) = NumJs({t})
       /\ NumJs(Terminal) > 0 => js_finished /\ ~js_listening /\ iframe = "removed"
  /\ called /\ IsPy(language) =>
       /\ HasType("timeout") => worker = "null" /\ wk_pc = "terminated"
       /\ finished => HasType("done") /\ timer # "armed"
  /\ called /\ ~Supported =>
       /\ Len(events) = 3
       /\ events[2].type = "error"
       /\ events[3].type = "done"

\* a JavaScript run whose callback threw for every event has delivered the
\* output and done and is torn down; so is a Python run that timed out
C32_Witness ==
  /\ throwsOn = EventTypes
  /\ ~escaped
  /\ \/ /\ IsJs(language)
        /\ HasType("stdout")
        /\ HasType("log")
        /\ HasType("done")
        /\ iframe = "removed"
     \/ /\ IsPy(language)
        /\ HasType("timeout")
        /\ wk_pc = "terminated"

\* the messages of a run that the panel shows or that change its status
LabOutput == {"stdout", "stderr", "result", "error"}

\* the runs that Stop was pressed for
Stopped == {s.run : s \in stoppedRuns}

\* C33: in the Python Lab, Stop terminates the current run: the worker that
\* was evaluating it is terminated, and no stdout, stderr, result or error
\* message of a stopped run is appended to the output or changes running
\* or the status when it is dispatched afterwards.
C33_StopTerminatesRun ==
  /\ [](\A s \in stoppedRuns : workers[s.exec].pc = "terminated")
  /\ [][\A e \in Execs :
          (/\ lab_onmessage(e)
           /\ Head(outbox[e]).type \in LabOutput
           /\ Head(outbox[e]).run \in Stopped)
          => UNCHANGED <<lines, status, running>>]_vars

\* C34: in the Python Lab, the messages of a run started after a Stop
\* reach the panel: once the host has dispatched the result or error of
\* such a run, and no other run has been started since, the panel is no
\* longer running and its status is no longer 'Running'.
C34_RunAfterStopShown ==
  \A k \in LabRuns :
    (/\ k = lab_runs
     /\ k \in finalSeen
     /\ k \notin Stopped
     /\ \E s \in stoppedRuns : s.run < k)
    => ~running /\ status # "Running"

\* C35: in the Python Lab, when the hard timeout of a run fires and the run
\* has had neither result nor error (the panel is still running it), the
\* run is marked as timed out: running becomes false, the status becomes
\* 'Timeout' and a line is appended.
C35_HardTimeout ==
  [][\A k \in LabRuns :
       (/\ lab_timeout(k)
        /\ k = lab_runs
        /\ running
        /\ k \notin finalSeen)
       => /\ running' = FALSE
          /\ status' = "Timeout"
          /\ lines' = Append(lines, [type |-> "err", run |-> 0])]_vars

\* C36: in App, after Reset is pressed while a compilation is in progress
\* the state stays idle until Compile is pressed again: isCompiling and
\* compilationComplete are false, whatever the stage interval of the
\* earlier handleCompile and the completion callback of the animation do.
C36_ResetStaysIdle ==
  resetIdle => ~isCompiling /\ ~compilationComplete

\* C37: in App, currentStage is always an index of the 7 compilation stages.
C37_StageInRange ==
  currentStage \in 0..(NumStages - 1)

====
